---- MODULE Spec2Model ----
(***************************************************************************)
(* ClawSec advisory guardian: feed verification, version matching, the     *)
(* hook entry point, the state store and the guarded install gate.         *)
(*                                                                         *)
(* Text (names, versions, specifiers) is modelled as a sequence of         *)
(* one-character strings, so that trim / split / parseInt / lastIndexOf    *)
(* are computed the way the JavaScript computes them.                      *)
(***************************************************************************)
EXTENDS Integers, Sequences, FiniteSets, TLC

(***************************************************************************)
(* Text helpers (JavaScript String primitives used by the sources).        *)
(***************************************************************************)

\* null / undefined, kept apart from every text value.
Null == <<"<null>">>

\* String(value ?? "")
Str(v) == IF v = Null THEN <<>> ELSE v

UpperChars == <<"A","B","C","D","E","F","G","H","I","J","K","L","M",
                "N","O","P","Q","R","S","T","U","V","W","X","Y","Z">>
LowerChars == <<"a","b","c","d","e","f","g","h","i","j","k","l","m",
                "n","o","p","q","r","s","t","u","v","w","x","y","z">>

ToLowerChar(c) ==
    IF \E i \in 1..Len(UpperChars) : UpperChars[i] = c
    THEN LowerChars[CHOOSE i \in 1..Len(UpperChars) : UpperChars[i] = c]
    ELSE c

\* String.prototype.toLowerCase
ToLower(s) == [i \in 1..Len(s) |-> ToLowerChar(s[i])]

ToUpperChar(c) ==
    IF \E i \in 1..Len(LowerChars) : LowerChars[i] = c
    THEN UpperChars[CHOOSE i \in 1..Len(LowerChars) : LowerChars[i] = c]
    ELSE c

\* String.prototype.toUpperCase
ToUpper(s) == [i \in 1..Len(s) |-> ToUpperChar(s[i])]

IsSpace(c) == c = " "

RECURSIVE TrimStart(_)
TrimStart(s) ==
    IF s # <<>> /\ IsSpace(Head(s)) THEN TrimStart(Tail(s)) ELSE s

RECURSIVE TrimEnd(_)
TrimEnd(s) ==
    IF s # <<>> /\ IsSpace(s[Len(s)]) THEN TrimEnd(SubSeq(s, 1, Len(s) - 1)) ELSE s

\* String.prototype.trim
Trim(s) == TrimEnd(TrimStart(s))

\* String.prototype.startsWith
StartsWith(s, p) == Len(s) >= Len(p) /\ SubSeq(s, 1, Len(p)) = p

\* String.prototype.slice(n) for 0 <= n
SliceFrom(s, n) == IF n >= Len(s) THEN <<>> ELSE SubSeq(s, n + 1, Len(s))

\* String.prototype.includes for a single character
Includes(s, c) == \E i \in 1..Len(s) : s[i] = c

\* 1-based position of the first occurrence of c, 0 when absent
IndexOf(s, c) ==
    IF Includes(s, c) THEN CHOOSE i \in 1..Len(s) : s[i] = c /\ \A j \in 1..(i - 1) : s[j] # c
    ELSE 0

\* String.prototype.lastIndexOf, as a 0-based index (-1 when absent)
LastIndexOf(s, c) ==
    IF Includes(s, c)
    THEN (CHOOSE i \in 1..Len(s) : s[i] = c /\ \A j \in (i + 1)..Len(s) : s[j] # c) - 1
    ELSE -1

\* String.prototype.split(sep) for a single-character separator
RECURSIVE Split(_, _)
Split(s, sep) ==
    IF ~Includes(s, sep) THEN <<s>>
    ELSE LET i == IndexOf(s, sep)
         IN <<SubSeq(s, 1, i - 1)>> \o Split(SliceFrom(s, i), sep)

\* value.replace(/^v/i, "")
StripLeadingV(s) ==
    IF s # <<>> /\ ToLowerChar(Head(s)) = "v" THEN Tail(s) ELSE s

(***************************************************************************)
(* lib/utils.mjs                                                           *)
(***************************************************************************)

normalizeSkillName(value) == ToLower(Trim(Str(value)))

RECURSIVE uniqueStrings(_)
uniqueStrings(values) ==
    IF values = <<>> THEN <<>>
    ELSE LET init == uniqueStrings(SubSeq(values, 1, Len(values) - 1))
             last == values[Len(values)]
         IN IF \E i \in 1..Len(init) : init[i] = last THEN init ELSE Append(init, last)

(***************************************************************************)
(* lib/version.mjs                                                         *)
(***************************************************************************)

DigitChars == <<"0","1","2","3","4","5","6","7","8","9">>
IsDigit(c) == \E i \in 1..Len(DigitChars) : DigitChars[i] = c
DigitVal(c) == (CHOOSE i \in 1..Len(DigitChars) : DigitChars[i] = c) - 1

\* Number.NaN; Number.parseInt yields no negative number here because every
\* text it is given was cut at the first "-".
NaN == -1

RECURSIVE DigitsValue(_, _)
DigitsValue(s, acc) ==
    IF s # <<>> /\ IsDigit(Head(s))
    THEN DigitsValue(Tail(s), 10 * acc + DigitVal(Head(s)))
    ELSE acc

\* Number.parseInt(part, 10): leading white space, an optional "+", then the
\* longest run of digits; NaN without a digit.
ParseInt(part) ==
    LET t == TrimStart(part)
        u == IF t # <<>> /\ Head(t) = "+" THEN Tail(t) ELSE t
    IN IF u # <<>> /\ IsDigit(Head(u)) THEN DigitsValue(u, 0) ELSE NaN

\* Lines 14-20: parts.slice(0, 3) parsed, missing parts are 0, null when a
\* part is NaN.
SemverNumbers(parts) ==
    [i \in 1..3 |-> IF i <= Len(parts) THEN ParseInt(parts[i]) ELSE 0]

SemverOrNull(normalized) ==
    IF \E i \in 1..3 : normalized[i] = NaN THEN Null ELSE normalized

parseSemver(version) ==
    SemverOrNull(SemverNumbers(
        Split(Split(StripLeadingV(Trim(Str(version))), "-")[1], ".")))

\* A number returned where the source may also return null.
Num(n) == <<"number", n>>

\* Lines 32-38, on the two parsed versions.
CompareParsed(a, b) ==
    IF a = Null \/ b = Null THEN Null
    ELSE IF a[1] # b[1] THEN (IF a[1] > b[1] THEN Num(1) ELSE Num(-1))
    ELSE IF a[2] # b[2] THEN (IF a[2] > b[2] THEN Num(1) ELSE Num(-1))
    ELSE IF a[3] # b[3] THEN (IF a[3] > b[3] THEN Num(1) ELSE Num(-1))
    ELSE Num(0)

compareSemver(left, right) == CompareParsed(parseSemver(left), parseSemver(right))

\* new RegExp("^" + escapeRegex(spec).replace(/\\\*/g, ".*") + "$").test(text):
\* every character of the spec is literal except "*", which matches any run.
RECURSIVE GlobMatch(_, _)
GlobMatch(pattern, text) ==
    IF pattern = <<>> THEN text = <<>>
    ELSE IF Head(pattern) = "*"
         THEN \E k \in 0..Len(text) : GlobMatch(Tail(pattern), SliceFrom(text, k))
         ELSE text # <<>> /\ Head(text) = Head(pattern) /\ GlobMatch(Tail(pattern), Tail(text))

\* spec.match(/^(>=|<=|>|<|=)\s*(.+)$/): the first alternative, in this order,
\* that leaves at least one character for (.+).
Comparators == << <<">", "=">>, <<"<", "=">>, <<">">>, <<"<">>, <<"=">> >>

ComparatorIndex(spec) ==
    IF \E i \in 1..Len(Comparators) :
           StartsWith(spec, Comparators[i]) /\ Len(spec) > Len(Comparators[i])
    THEN CHOOSE i \in 1..Len(Comparators) :
           /\ StartsWith(spec, Comparators[i]) /\ Len(spec) > Len(Comparators[i])
           /\ \A j \in 1..(i - 1) :
                ~(StartsWith(spec, Comparators[j]) /\ Len(spec) > Len(Comparators[j]))
    ELSE 0

\* Lines 69-78: the comparator branch, on the operator and the comparison.
ComparatorHolds(operator, compared) ==
    IF compared = Null THEN FALSE
    ELSE IF operator = <<">", "=">> THEN compared[2] >= 0
    ELSE IF operator = <<"<", "=">> THEN compared[2] <= 0
    ELSE IF operator = <<">">> THEN compared[2] > 0
    ELSE IF operator = <<"<">> THEN compared[2] < 0
    ELSE compared[2] = 0

\* The caret branch without the pin of the minor under major 0.
CaretHoldsMutNoMinorPin(target, current, compared) ==
    IF target = Null \/ current = Null THEN FALSE
    ELSE IF current[1] # target[1] THEN FALSE
    ELSE compared # Num(-1)

\* The tilde branch pinning the major alone.
TildeHoldsMutMajorOnly(target, current, compared) ==
    IF target = Null \/ current = Null THEN FALSE
    ELSE /\ current[1] = target[1]
         /\ compared # Num(-1)

\* Lines 82-88: the caret branch.
CaretHolds(target, current, compared) ==
    IF target = Null \/ current = Null THEN FALSE
    ELSE IF current[1] # target[1] THEN FALSE
    ELSE IF target[1] = 0 /\ current[2] # target[2] THEN FALSE
    ELSE compared # Num(-1)

\* Lines 91-96: the tilde branch.
TildeHolds(target, current, compared) ==
    IF target = Null \/ current = Null THEN FALSE
    ELSE /\ current[1] = target[1]
         /\ current[2] = target[2]
         /\ compared # Num(-1)

\* The version "unknown" recognised in this letter case only.
MatchesSpecMutUnknownExact(version, spec, normalizedVersion, ci) ==
    IF spec = <<>> \/ spec = <<"*">> \/ ToLower(spec) = <<"a","n","y">> THEN TRUE
    ELSE IF version = Null \/ version = <<>>
            \/ Trim(Str(version)) = <<"u","n","k","n","o","w","n">> THEN FALSE
    ELSE IF Includes(spec, "*") THEN GlobMatch(spec, normalizedVersion)
    ELSE IF ci # 0
         THEN ComparatorHolds(Comparators[ci],
                  compareSemver(normalizedVersion,
                                Trim(SliceFrom(spec, Len(Comparators[ci])))))
    ELSE IF StartsWith(spec, <<"^">>)
         THEN CaretHolds(parseSemver(SliceFrom(spec, 1)), parseSemver(normalizedVersion),
                         compareSemver(normalizedVersion, SliceFrom(spec, 1)))
    ELSE IF StartsWith(spec, <<"~">>)
         THEN TildeHolds(parseSemver(SliceFrom(spec, 1)), parseSemver(normalizedVersion),
                         compareSemver(normalizedVersion, SliceFrom(spec, 1)))
    ELSE normalizedVersion = spec \/ normalizedVersion = StripLeadingV(spec)

\* Lines 57-99, on spec (the trimmed rawSpec), normalizedVersion and the
\* index ci of the comparator that spec starts with.
MatchesSpec(version, spec, normalizedVersion, ci) ==
    IF spec = <<>> \/ spec = <<"*">> \/ ToLower(spec) = <<"a","n","y">> THEN TRUE
    ELSE IF version = Null \/ version = <<>>
            \/ ToLower(Trim(Str(version))) = <<"u","n","k","n","o","w","n">> THEN FALSE
    ELSE IF Includes(spec, "*") THEN GlobMatch(spec, normalizedVersion)
    ELSE IF ci # 0
         THEN ComparatorHolds(Comparators[ci],
                  compareSemver(normalizedVersion,
                                Trim(SliceFrom(spec, Len(Comparators[ci])))))
    ELSE IF StartsWith(spec, <<"^">>)
         THEN CaretHolds(parseSemver(SliceFrom(spec, 1)), parseSemver(normalizedVersion),
                         compareSemver(normalizedVersion, SliceFrom(spec, 1)))
    ELSE IF StartsWith(spec, <<"~">>)
         THEN TildeHolds(parseSemver(SliceFrom(spec, 1)), parseSemver(normalizedVersion),
                         compareSemver(normalizedVersion, SliceFrom(spec, 1)))
    ELSE normalizedVersion = spec \/ normalizedVersion = StripLeadingV(spec)

versionMatches(version, rawSpec) ==
    MatchesSpec(version, Trim(Str(rawSpec)), StripLeadingV(Trim(Str(version))),
                ComparatorIndex(Trim(Str(rawSpec))))

(***************************************************************************)
(* lib/feed.mjs: transport policy                                          *)
(*                                                                         *)
(* A URL is the record new URL(url) yields: valid (FALSE when the          *)
(* constructor throws), protocol, hostname (as written, any letter case)   *)
(* and the basename of its path ("" when the path ends with "/").          *)
(***************************************************************************)

ALLOWED_DOMAINS == <<
    <<"c","l","a","w","s","e","c",".","p","r","o","m","p","t",".","s","e","c","u","r","i","t","y">>,
    <<"p","r","o","m","p","t",".","s","e","c","u","r","i","t","y">>,
    <<"r","a","w",".","g","i","t","h","u","b","u","s","e","r","c","o","n","t","e","n","t",".","c","o","m">>,
    <<"g","i","t","h","u","b",".","c","o","m">> >>

\* String.prototype.endsWith
EndsWith(s, suffix) ==
    Len(s) >= Len(suffix) /\ SubSeq(s, Len(s) - Len(suffix) + 1, Len(s)) = suffix

isAllowedDomainMutSuffix(url) ==
    /\ url.valid
    /\ url.protocol = "https:"
    /\ \E i \in 1..Len(ALLOWED_DOMAINS) : EndsWith(ToLower(url.hostname), ALLOWED_DOMAINS[i])

isAllowedDomain(url) ==
    IF ~url.valid THEN FALSE
    ELSE IF url.protocol # "https:" THEN FALSE
    ELSE LET hostname == ToLower(url.hostname)
         IN \E i \in 1..Len(ALLOWED_DOMAINS) :
               \/ hostname = ALLOWED_DOMAINS[i]
               \/ EndsWith(hostname, <<".">> \o ALLOWED_DOMAINS[i])

(***************************************************************************)
(* Results of calls that may return, return null or throw.                 *)
(***************************************************************************)

NoResult == [kind |-> "null"]
Throw(name) == [kind |-> "throw", error |-> name]
IsThrow(r) == r.kind = "throw"

\* A text (file content or response body). The empty text "" is falsy in
\* JavaScript, like null.
EmptyText == [kind |-> "text", is |-> "empty"]
Falsy(t) == t.kind = "null" \/ t = EmptyText

\* What the network does with one request: "ok" (a 2xx response carrying
\* body), "status" (a non-OK response), "error" (the fetch rejects) or
\* "timeout" (no answer within the 10 s after which fetchText aborts).
NetOk(body) == [kind |-> "ok", body |-> body]
NetStatus == [kind |-> "status", body |-> EmptyText]
NetError == [kind |-> "error", body |-> EmptyText]
NetTimeout == [kind |-> "timeout", body |-> EmptyText]

\* secureFetch: a SecurityPolicyError before any request for a URL outside
\* the policy; otherwise the request is issued and the promise settles with
\* what the network does.
secureFetch(url, net) ==
    IF ~isAllowedDomain(url)
    THEN [result |-> Throw("SecurityPolicyError"), requested |-> FALSE]
    ELSE IF net.kind = "error" THEN [result |-> Throw("TypeError"), requested |-> TRUE]
    ELSE IF net.kind = "timeout" THEN [result |-> Throw("AbortError"), requested |-> TRUE]
    ELSE [result |-> [kind |-> "response", ok |-> net.kind = "ok", body |-> net.body],
          requested |-> TRUE]

\* fetchText: null for a non-OK response; the policy error is re-thrown, every
\* other rejection (network error, abort on time-out) becomes null.
fetchText(url, net) ==
    LET f == secureFetch(url, net)
    IN IF IsThrow(f.result)
       THEN (IF f.result.error = "SecurityPolicyError" THEN f
             ELSE [result |-> NoResult, requested |-> f.requested])
       ELSE IF ~f.result.ok THEN [result |-> NoResult, requested |-> f.requested]
       ELSE [result |-> f.result.body, requested |-> f.requested]

(***************************************************************************)
(* lib/feed.mjs: affected specifiers and the feed shape                    *)
(***************************************************************************)

parseAffectedSpecifier(rawSpecifier) ==
    LET specifier == Trim(Str(rawSpecifier))
        atIndex == LastIndexOf(specifier, "@")
    IN IF specifier = <<>> THEN [ok |-> FALSE, name |-> <<>>, versionSpec |-> <<>>]
       ELSE IF atIndex <= 0 THEN [ok |-> TRUE, name |-> specifier, versionSpec |-> <<"*">>]
       ELSE [ok |-> TRUE,
             name |-> SubSeq(specifier, 1, atIndex),
             versionSpec |-> SliceFrom(specifier, atIndex + 1)]

\* typeof value === "string" && value.trim() !== ""; a value that is not a
\* string is Null.
NonEmptyString(value) == value # Null /\ Trim(value) # <<>>

\* A shape check that looks at the first advisory only.
isValidFeedPayloadMutFirst(raw) ==
    /\ raw.isObject
    /\ raw.version # Null /\ Trim(raw.version) # <<>>
    /\ raw.advisoriesIsArray
    /\ \A i \in 1..(IF raw.advisories = <<>> THEN 0 ELSE 1) :
          LET advisory == raw.advisories[i]
          IN /\ advisory.isObject
             /\ advisory.id # Null /\ Trim(advisory.id) # <<>>
             /\ advisory.severity # Null /\ Trim(advisory.severity) # <<>>
             /\ advisory.affectedIsArray
             /\ \A j \in 1..Len(advisory.affected) :
                   advisory.affected[j] # Null /\ Trim(advisory.affected[j]) # <<>>

\* A parsed JSON document of a feed: isObject, version (text or Null),
\* advisoriesIsArray, advisories; an advisory: isObject, id, severity,
\* affectedIsArray, affected (texts or Null), type, title, description,
\* action, updated.
isValidFeedPayload(raw) ==
    /\ raw.isObject
    /\ NonEmptyString(raw.version)
    /\ raw.advisoriesIsArray
    /\ \A i \in 1..Len(raw.advisories) :
          LET advisory == raw.advisories[i]
          IN /\ advisory.isObject
             /\ NonEmptyString(advisory.id)
             /\ NonEmptyString(advisory.severity)
             /\ advisory.affectedIsArray
             /\ \A j \in 1..Len(advisory.affected) : NonEmptyString(advisory.affected[j])

(***************************************************************************)
(* lib/feed.mjs: detached signatures                                       *)
(*                                                                         *)
(* Ed25519 is modelled ideally: the signature bytes made with the private  *)
(* key of pair k over a text are the record Sign(k, text), and they verify *)
(* under a public key exactly when that key is k's and the text is the     *)
(* same text.  Any other bytes never verify.                               *)
(***************************************************************************)

Sign(k, text) == [signer |-> k, over |-> text]
GarbageBytes == [signer |-> "none", over |-> EmptyText]

\* A signature file: form "base64" (the raw base64 of bytes), "json" (an
\* envelope {"signature": base64 of bytes}), "jsonNoField" (a JSON object
\* without a string signature field), "brokenJson" (starts with "{" and does
\* not parse) or "blank" (white space only).
SigText(form, bytes) == [kind |-> "text", is |-> "sig", form |-> form, bytes |-> bytes]

\* A public key file: a PEM of key pair k, or text that is no PEM.
PemText(k) == [kind |-> "text", is |-> "pem", key |-> k]

NoBuffer == [decoded |-> FALSE, bytes |-> GarbageBytes]
Buffer(bytes) == [decoded |-> TRUE, bytes |-> bytes]

\* A decoder that takes the raw base64 form only.
decodeSignatureMutNoEnvelope(signatureRaw) ==
    IF Falsy(signatureRaw) THEN NoBuffer
    ELSE IF signatureRaw.is # "sig" THEN Buffer(GarbageBytes)
    ELSE IF signatureRaw.form = "base64" THEN Buffer(signatureRaw.bytes)
    ELSE NoBuffer

decodeSignature(signatureRaw) ==
    IF Falsy(signatureRaw) THEN NoBuffer
    ELSE IF signatureRaw.is # "sig" THEN Buffer(GarbageBytes)
    ELSE IF signatureRaw.form = "blank" THEN NoBuffer
    ELSE IF signatureRaw.form = "brokenJson" THEN NoBuffer
    ELSE IF signatureRaw.form = "jsonNoField" THEN Buffer(GarbageBytes)
    ELSE Buffer(signatureRaw.bytes)

verifySignedPayloadMutAccept(payloadRaw, signatureRaw, publicKeyPem) ==
    decodeSignature(signatureRaw).decoded

verifySignedPayload(payloadRaw, signatureRaw, publicKeyPem) ==
    LET signature == decodeSignature(signatureRaw)
    IN IF ~signature.decoded THEN FALSE
       ELSE IF Falsy(publicKeyPem) THEN FALSE
       ELSE IF publicKeyPem.is # "pem" \/ publicKeyPem.key = "none" THEN FALSE
       ELSE signature.bytes = Sign(publicKeyPem.key, payloadRaw)

(***************************************************************************)
(* lib/feed.mjs: checksum manifests                                        *)
(*                                                                         *)
(* SHA-256 is modelled ideally: the digest of a text is Digest(text), and  *)
(* two texts have the same digest only when they are the same text.  A     *)
(* digest written in a manifest has a style: "lower", "upper" or "padded"  *)
(* (all normalise to the lower-case hex), or "short" (not 64 hex digits).  *)
(***************************************************************************)

Digest(text) == [of |-> text, style |-> "lower"]
sha256Hex(content) == Digest(content)

\* A manifest entry value: form "string" (a hex digest), "object" (an object
\* {sha256: hex digest}) or "other" (anything else).
extractSha256Value(value) ==
    IF value.form \in {"string", "object"}
    THEN (IF value.hex.style = "short" THEN [ok |-> FALSE, digest |-> Digest(EmptyText)]
          ELSE [ok |-> TRUE, digest |-> Digest(value.hex.of)])
    ELSE [ok |-> FALSE, digest |-> Digest(EmptyText)]

\* Object semantics of a list of <<key, value>> entries: the last entry of a
\* key is the one the object holds.
HasKey(entries, key) == \E i \in 1..Len(entries) : entries[i].name = key
Lookup(entries, key) ==
    entries[CHOOSE i \in 1..Len(entries) :
               entries[i].name = key /\ \A j \in (i + 1)..Len(entries) : entries[j].name # key]

\* A manifest document: json (it parses), isObject, algorithm, schema_version,
\* version, generated_at (texts, Null when absent or not a string),
\* filesIsObject, files (entries [name, form, hex]).
parseChecksumsManifest(manifestRaw) ==
    IF manifestRaw.is # "manifest" \/ ~manifestRaw.json
    THEN Throw("Checksum manifest is not valid JSON")
    ELSE LET parsed == manifestRaw.doc
             algorithmRaw == IF parsed.algorithm # Null THEN ToLower(Trim(parsed.algorithm))
                             ELSE <<"s","h","a","2","5","6">>
             schemaVersion == IF parsed.schema_version # Null THEN Trim(parsed.schema_version)
                              ELSE IF parsed.version # Null THEN Trim(parsed.version)
                              ELSE IF parsed.generated_at # Null THEN Trim(parsed.generated_at)
                              ELSE <<"1">>
             usable == SelectSeq(parsed.files, LAMBDA e : Trim(Str(e.name)) # <<>>)
         IN IF ~parsed.isObject THEN Throw("Checksum manifest must be an object")
            ELSE IF algorithmRaw # <<"s","h","a","2","5","6">>
                 THEN Throw("Unsupported checksum manifest algorithm")
            ELSE IF schemaVersion = <<>> THEN Throw("Checksum manifest missing schema_version")
            ELSE IF ~parsed.filesIsObject THEN Throw("Checksum manifest missing files object")
            ELSE IF \E i \in 1..Len(usable) : ~extractSha256Value(usable[i]).ok
                 THEN Throw("Invalid checksum digest entry")
            ELSE IF usable = <<>> THEN Throw("Checksum manifest has no usable file digests")
            ELSE [kind |-> "manifest",
                  schemaVersion |-> schemaVersion,
                  algorithm |-> algorithmRaw,
                  files |-> [i \in 1..Len(usable) |->
                               [name |-> usable[i].name,
                                digest |-> extractSha256Value(usable[i]).digest]]]

\* expectedEntries is an object built from a list of [name, content]: a later
\* entry of the same name replaces the earlier one.
EntryObject(list) == [i \in 1..Len(list) |-> Lookup(list, list[i].name)]

\* A verification that passes over an entry the manifest does not list.
RECURSIVE verifyChecksumsFromMutSkipMissing(_, _, _)
verifyChecksumsFromMutSkipMissing(manifest, expected, i) ==
    IF i > Len(expected) THEN [kind |-> "ok"]
    ELSE LET entryName == expected[i].name
         IN IF entryName = <<>> \/ ~HasKey(manifest.files, entryName)
            THEN verifyChecksumsFromMutSkipMissing(manifest, expected, i + 1)
            ELSE IF sha256Hex(expected[i].content) # Lookup(manifest.files, entryName).digest
                 THEN Throw("Checksum mismatch")
            ELSE verifyChecksumsFromMutSkipMissing(manifest, expected, i + 1)

RECURSIVE verifyChecksumsFrom(_, _, _)
verifyChecksumsFrom(manifest, expected, i) ==
    IF i > Len(expected) THEN [kind |-> "ok"]
    ELSE LET entryName == expected[i].name
         IN IF entryName = <<>> THEN verifyChecksumsFrom(manifest, expected, i + 1)
            ELSE IF ~HasKey(manifest.files, entryName)
                 THEN Throw("Checksum manifest missing required entry")
            ELSE IF sha256Hex(expected[i].content) # Lookup(manifest.files, entryName).digest
                 THEN Throw("Checksum mismatch")
            ELSE verifyChecksumsFrom(manifest, expected, i + 1)

verifyChecksums(manifest, expectedEntries) ==
    verifyChecksumsFrom(manifest, EntryObject(expectedEntries), 1)

safeBasename(url, fallback) == IF url.basename # <<>> THEN url.basename ELSE fallback

(***************************************************************************)
(* lib/feed.mjs: the loaders                                               *)
(*                                                                         *)
(* A feed text: is = "feed", json (it parses), doc (the parsed document)   *)
(* and variant (texts of the same document that differ in their bytes).    *)
(* A loader's outcome: result ([kind |-> "feed", feed |-> doc], NoResult or *)
(* a Throw) together with what it did on the way: the URLs it requested    *)
(* (or the files it read) in order, and whether a SecurityPolicyError was  *)
(* raised inside it.                                                       *)
(***************************************************************************)

FeedResult(doc) == [kind |-> "feed", feed |-> doc]
Outcome(result, touched, policy) == [result |-> result, touched |-> touched, policy |-> policy]

FEED_JSON == <<"f","e","e","d",".","j","s","o","n">>
FEED_JSON_SIG == FEED_JSON \o <<".","s","i","g">>

\* Lines 495-501: parse and shape check; t are the requests made so far.
RemoteParse(payloadRaw, t) ==
    IF payloadRaw.is # "feed" \/ ~payloadRaw.json THEN Outcome(NoResult, t, FALSE)
    ELSE IF ~isValidFeedPayload(payloadRaw.doc) THEN Outcome(NoResult, t, FALSE)
    ELSE Outcome(FeedResult(payloadRaw.doc), t, FALSE)

\* A remote loader that answers a manifest it cannot use with null.
RemoteManifestMutNull(checksumsManifest, verified, payloadRaw, t) ==
    IF IsThrow(checksumsManifest) THEN Outcome(NoResult, t, FALSE)
    ELSE IF IsThrow(verified) THEN Outcome(verified, t, FALSE)
    ELSE RemoteParse(payloadRaw, t)

\* Lines 483-491: the manifest, parsed and compared with the two artifacts.
RemoteManifest(checksumsManifest, verified, payloadRaw, t) ==
    IF IsThrow(checksumsManifest) THEN Outcome(checksumsManifest, t, FALSE)
    ELSE IF IsThrow(verified) THEN Outcome(verified, t, FALSE)
    ELSE RemoteParse(payloadRaw, t)

\* A remote loader that compares the digests of a manifest without
\* verifying the signature of the manifest.
RemoteChecksumsMutUnsigned(got, w, o, t, t3, t4) ==
    IF ~o.verifyChecksumManifest THEN RemoteParse(got.payload.result, t)
    ELSE IF IsThrow(got.checksums.result) THEN Outcome(got.checksums.result, t3, TRUE)
    ELSE IF IsThrow(got.checksumsSignature.result)
         THEN Outcome(got.checksumsSignature.result, t4, TRUE)
    ELSE IF ~Falsy(got.checksums.result) /\ ~Falsy(got.checksumsSignature.result)
         THEN RemoteManifest(
                  parseChecksumsManifest(got.checksums.result),
                  verifyChecksums(parseChecksumsManifest(got.checksums.result),
                      << [name |-> safeBasename(w.urls.feed, FEED_JSON),
                          content |-> got.payload.result],
                         [name |-> safeBasename(w.urls.sig, FEED_JSON_SIG),
                          content |-> got.signature.result] >>),
                  got.payload.result, t4)
    ELSE RemoteParse(got.payload.result, t4)

\* Lines 471-493; got holds what the four fetchText calls yield, t3 and t4
\* are the requests made once the manifest and its signature are fetched.
RemoteChecksums(got, w, o, t, t3, t4) ==
    IF ~o.verifyChecksumManifest THEN RemoteParse(got.payload.result, t)
    ELSE IF IsThrow(got.checksums.result) THEN Outcome(got.checksums.result, t3, TRUE)
    ELSE IF IsThrow(got.checksumsSignature.result)
         THEN Outcome(got.checksumsSignature.result, t4, TRUE)
    ELSE IF ~Falsy(got.checksums.result) /\ ~Falsy(got.checksumsSignature.result)
         THEN IF ~verifySignedPayload(got.checksums.result, got.checksumsSignature.result,
                                      o.checksumsPublicKeyPem)
              THEN Outcome(NoResult, t4, FALSE)
              ELSE RemoteManifest(
                       parseChecksumsManifest(got.checksums.result),
                       verifyChecksums(parseChecksumsManifest(got.checksums.result),
                           << [name |-> safeBasename(w.urls.feed, FEED_JSON),
                               content |-> got.payload.result],
                              [name |-> safeBasename(w.urls.sig, FEED_JSON_SIG),
                               content |-> got.signature.result] >>),
                       got.payload.result, t4)
    ELSE RemoteParse(got.payload.result, t4)

\* The requests a settled fetchText stands for.
Req(f, slot) == IF f.requested THEN <<slot>> ELSE <<>>

\* Lines 457-493: the body of the try block.
RemoteTry(got, w, o, t1, t2) ==
    IF IsThrow(got.payload.result) THEN Outcome(got.payload.result, t1, TRUE)
    ELSE IF Falsy(got.payload.result) THEN Outcome(NoResult, t1, FALSE)
    ELSE IF o.allowUnsigned THEN RemoteParse(got.payload.result, t1)
    ELSE IF IsThrow(got.signature.result) THEN Outcome(got.signature.result, t2, TRUE)
    ELSE IF Falsy(got.signature.result) THEN Outcome(NoResult, t2, FALSE)
    ELSE IF ~verifySignedPayload(got.payload.result, got.signature.result, o.publicKeyPem)
         THEN Outcome(NoResult, t2, FALSE)
    ELSE RemoteChecksums(got, w, o, t2,
                         t2 \o Req(got.checksums, "sums"),
                         t2 \o Req(got.checksums, "sums")
                            \o Req(got.checksumsSignature, "sumsSig"))

\* Lines 502-510: the catch around the whole body.
RemoteCatch(inner) ==
    IF IsThrow(inner.result) /\ inner.result.error = "SecurityPolicyError"
    THEN [inner EXCEPT !.result = NoResult]
    ELSE inner

\* What the four fetchText calls yield, each when it is reached.
RemoteFetches(w) ==
    [payload |-> fetchText(w.urls.feed, w.net.feed),
     signature |-> fetchText(w.urls.sig, w.net.sig),
     checksums |-> fetchText(w.urls.sums, w.net.sums),
     checksumsSignature |-> fetchText(w.urls.sumsSig, w.net.sumsSig)]

RemoteRun(got, w, o) ==
    RemoteCatch(RemoteTry(got, w, o,
                          Req(got.payload, "feed"),
                          Req(got.payload, "feed") \o Req(got.signature, "sig")))

\* The remote loader on world w (urls and net, each with the fields feed,
\* sig, sums, sumsSig) under options o.
loadRemoteFeed(w, o) == RemoteRun(RemoteFetches(w), w, o)

\* fs.readFile of a local file: the text, or ENOENT when the file is absent
\* (files[name] = NoResult).
readFile(files, name) == IF files[name].kind = "null" THEN Throw("ENOENT") ELSE files[name]

\* Lines 421-425: parse and shape check; t are the files read so far.
LocalParse(payloadRaw, t) ==
    IF payloadRaw.is # "feed" \/ ~payloadRaw.json THEN Outcome(Throw("SyntaxError"), t, FALSE)
    ELSE IF ~isValidFeedPayload(payloadRaw.doc)
         THEN Outcome(Throw("Invalid advisory feed format"), t, FALSE)
    ELSE Outcome(FeedResult(payloadRaw.doc), t, FALSE)

\* Lines 404-417: the manifest, parsed and compared with the artifacts.
LocalManifest(checksumsManifest, verified, payloadRaw, t) ==
    IF IsThrow(checksumsManifest) THEN Outcome(checksumsManifest, t, FALSE)
    ELSE IF IsThrow(verified) THEN Outcome(verified, t, FALSE)
    ELSE LocalParse(payloadRaw, t)

\* Lines 407-415: the entries the manifest must hold.
LocalExpectedEntries(read, entries, o) ==
    << [name |-> entries.feed, content |-> read.payload],
       [name |-> entries.sig, content |-> read.signature] >>
    \o (IF entries.key # <<>>
        THEN << [name |-> entries.key, content |-> o.publicKeyPem] >>
        ELSE <<>>)

\* A local loader that goes on without checksums when the manifest or its
\* signature is absent, as the remote loader does.
LocalChecksumsMutSkip(read, entries, o, t) ==
    IF ~o.verifyChecksumManifest THEN LocalParse(read.payload, t)
    ELSE IF IsThrow(read.checksums) THEN LocalParse(read.payload, t \o <<"sums">>)
    ELSE IF IsThrow(read.checksumsSignature)
         THEN LocalParse(read.payload, t \o <<"sums", "sumsSig">>)
    ELSE IF ~verifySignedPayload(read.checksums, read.checksumsSignature, o.checksumsPublicKeyPem)
         THEN Outcome(Throw("Checksum manifest signature verification failed"),
                      t \o <<"sums", "sumsSig">>, FALSE)
    ELSE LocalManifest(parseChecksumsManifest(read.checksums),
                       verifyChecksums(parseChecksumsManifest(read.checksums),
                                       LocalExpectedEntries(read, entries, o)),
                       read.payload, t \o <<"sums", "sumsSig">>)

\* Lines 397-418; read holds what the four readFile calls yield.
LocalChecksums(read, entries, o, t) ==
    IF ~o.verifyChecksumManifest THEN LocalParse(read.payload, t)
    ELSE IF IsThrow(read.checksums) THEN Outcome(read.checksums, t \o <<"sums">>, FALSE)
    ELSE IF IsThrow(read.checksumsSignature)
         THEN Outcome(read.checksumsSignature, t \o <<"sums", "sumsSig">>, FALSE)
    ELSE IF ~verifySignedPayload(read.checksums, read.checksumsSignature, o.checksumsPublicKeyPem)
         THEN Outcome(Throw("Checksum manifest signature verification failed"),
                      t \o <<"sums", "sumsSig">>, FALSE)
    ELSE LocalManifest(parseChecksumsManifest(read.checksums),
                       verifyChecksums(parseChecksumsManifest(read.checksums),
                                       LocalExpectedEntries(read, entries, o)),
                       read.payload, t \o <<"sums", "sumsSig">>)

\* A local loader whose bypass skips the feed signature alone.
LocalRunMutBypassSignature(read, entries, o) ==
    IF IsThrow(read.payload) THEN Outcome(read.payload, <<"feed">>, FALSE)
    ELSE IF o.allowUnsigned THEN LocalChecksums(read, entries, o, <<"feed">>)
    ELSE IF IsThrow(read.signature) THEN Outcome(read.signature, <<"feed", "sig">>, FALSE)
    ELSE IF ~verifySignedPayload(read.payload, read.signature, o.publicKeyPem)
         THEN Outcome(Throw("Feed signature verification failed"), <<"feed", "sig">>, FALSE)
    ELSE LocalChecksums(read, entries, o, <<"feed", "sig">>)

\* Lines 385-419.
LocalRun(read, entries, o) ==
    IF IsThrow(read.payload) THEN Outcome(read.payload, <<"feed">>, FALSE)
    ELSE IF o.allowUnsigned THEN LocalParse(read.payload, <<"feed">>)
    ELSE IF IsThrow(read.signature) THEN Outcome(read.signature, <<"feed", "sig">>, FALSE)
    ELSE IF ~verifySignedPayload(read.payload, read.signature, o.publicKeyPem)
         THEN Outcome(Throw("Feed signature verification failed"), <<"feed", "sig">>, FALSE)
    ELSE LocalChecksums(read, entries, o, <<"feed", "sig">>)

LocalReads(files) ==
    [payload |-> readFile(files, "feed"),
     signature |-> readFile(files, "sig"),
     checksums |-> readFile(files, "sums"),
     checksumsSignature |-> readFile(files, "sumsSig")]

\* The local loader on the files feed, sig, sums, sumsSig under options o;
\* entries names the manifest entries (feed, sig, key; key is <<>> when no
\* checksumPublicKeyEntry is configured).
loadLocalFeed(files, entries, o) == LocalRun(LocalReads(files), entries, o)

(***************************************************************************)
(* The orchestrating loadFeed of the hook (handler.ts) and of the guard    *)
(* gate (guarded_skill_install.mjs): the same steps in both.               *)
(*                                                                         *)
(* env: allowUnsigned, verifyChecksumManifest, keyFile (the public key     *)
(* file, NoResult when unreadable), keyEntry (basename of its path), w     *)
(* (the remote world) and files (the local files).                         *)
(***************************************************************************)

LoaderOptions(env, publicKeyPem) ==
    [publicKeyPem |-> publicKeyPem,
     checksumsPublicKeyPem |-> publicKeyPem,
     allowUnsigned |-> env.allowUnsigned,
     verifyChecksumManifest |-> env.verifyChecksumManifest]

NotRun == Outcome(NoResult, <<>>, FALSE)

\* Line 66 (line 201 of the gate): the public key, "" under the bypass.
KeyRead(env) ==
    IF env.allowUnsigned THEN EmptyText
    ELSE IF env.keyFile.kind = "null" THEN Throw("ENOENT") ELSE env.keyFile

\* A loadFeed that also falls back when the remote loader throws.
RemoteElseLocalMutCatch(remote, local) ==
    IF ~IsThrow(remote.result) /\ remote.result.kind = "feed"
    THEN [result |-> remote.result, source |-> "remote", remote |-> remote, local |-> NotRun]
    ELSE [result |-> local.result, source |-> IF IsThrow(local.result) THEN "none" ELSE "local",
          remote |-> remote, local |-> local]

\* Lines 77-88: the remote feed when there is one, else the local loader.
RemoteElseLocal(remote, local) ==
    IF IsThrow(remote.result)
    THEN [result |-> remote.result, source |-> "none", remote |-> remote, local |-> NotRun]
    ELSE IF remote.result.kind = "feed"
    THEN [result |-> remote.result, source |-> "remote", remote |-> remote, local |-> NotRun]
    ELSE [result |-> local.result, source |-> IF IsThrow(local.result) THEN "none" ELSE "local",
          remote |-> remote, local |-> local]

LoadWithKey(env, keyRead) ==
    IF IsThrow(keyRead)
    THEN [result |-> keyRead, source |-> "none", remote |-> NotRun, local |-> NotRun]
    ELSE RemoteElseLocal(
             loadRemoteFeed(env.w, LoaderOptions(env, keyRead)),
             loadLocalFeed(env.files,
                           [feed |-> FEED_JSON, sig |-> FEED_JSON_SIG, key |-> env.keyEntry],
                           LoaderOptions(env, keyRead)))

loadFeed(env) == LoadWithKey(env, KeyRead(env))

(***************************************************************************)
(* The data the model runs on.                                             *)
(***************************************************************************)

\* Skill names, versions and affected specifiers.
NameA == <<"a">>
NameB == <<"b">>
V100 == <<"1",".","0",".","0">>
V200 == <<"2",".","0",".","0">>
Unknown == <<"u","n","k","n","o","w","n">>
SpecA100 == <<"a","@","1",".","0",".","0">>
SpecACaret == <<"a","@","^","1",".","1",".","0">>
SpecAUpper == <<" ","A","@",">","=","2">>
SpecBAny == <<"b">>
SpecBGe2 == <<"b","@",">","=","2",".","0",".","0">>

Advisory(id, severity, type, affected) ==
    [isObject |-> TRUE, id |-> id, severity |-> severity, type |-> type,
     affectedIsArray |-> TRUE, affected |-> affected]

Adv1 == Advisory(<<"A","1">>, <<"h","i","g","h">>, Null, <<SpecA100>>)
Adv2 == Advisory(<<"A","2">>, <<"c","r","i","t","i","c","a","l">>, <<"m","a","l","i","c","i","o","u","s","_","s","k","i","l","l">>,
                 <<SpecBAny, SpecACaret, SpecAUpper>>)
Adv3 == Advisory(<<"A","3">>, <<"l","o","w">>, Null, <<>>)
Adv4 == Advisory(<<"A","4">>, <<"h","i","g","h">>, Null, <<SpecBGe2>>)
AdvNoId == Advisory(<<" ">>, <<"h","i","g","h">>, Null, <<SpecA100>>)
AdvBadAffected == [Advisory(<<"A","5">>, <<"h","i","g","h">>, Null, <<>>) EXCEPT !.affectedIsArray = FALSE]

FeedDoc(advisories, updated) ==
    [isObject |-> TRUE, version |-> <<"1">>, updated |-> updated,
     advisoriesIsArray |-> TRUE, advisories |-> advisories]

DocA == FeedDoc(<<Adv1>>, <<"u","1">>)
DocB == FeedDoc(<<Adv1, Adv2, Adv3>>, <<"u","2">>)
DocC == FeedDoc(<<Adv4>>, Null)
DocEmpty == FeedDoc(<<>>, Null)
DocNoId == FeedDoc(<<Adv1, AdvNoId>>, Null)
DocBadAffected == FeedDoc(<<AdvBadAffected>>, Null)
DocNoVersion == [FeedDoc(<<Adv1>>, Null) EXCEPT !.version = Null]
DocBlankVersion == [FeedDoc(<<Adv1>>, Null) EXCEPT !.version = <<" ">>]
DocNoObject == [FeedDoc(<<>>, Null) EXCEPT !.isObject = FALSE, !.version = Null,
                                          !.advisoriesIsArray = FALSE]
DocNoAdvisories == [FeedDoc(<<>>, Null) EXCEPT !.advisoriesIsArray = FALSE]
DocNoSeverity == FeedDoc(<<Adv3, [Adv1 EXCEPT !.severity = Null]>>, Null)
DocAdvisoryNoObject ==
    FeedDoc(<<Adv1, [isObject |-> FALSE, id |-> Null, severity |-> Null, type |-> Null,
                     affectedIsArray |-> FALSE, affected |-> <<>>]>>, Null)
DocAffectedNoString == FeedDoc(<<Advisory(<<"A","6">>, <<"l","o","w">>, Null, <<Null>>)>>, Null)

FeedText(doc, variant) == [kind |-> "text", is |-> "feed", json |-> TRUE, doc |-> doc, variant |-> variant]
NotJsonText == [kind |-> "text", is |-> "feed", json |-> FALSE, doc |-> DocEmpty, variant |-> 0]

\* The key pair whose public key is pinned, and another one.
PinnedKey == "K1"
OtherKey == "K2"

\* URLs.
Url(protocol, hostname, basename) ==
    [valid |-> TRUE, protocol |-> protocol, hostname |-> hostname, basename |-> basename]
InvalidUrl == [valid |-> FALSE, protocol |-> "", hostname |-> <<>>, basename |-> <<>>]

HostRaw == <<"r","a","w",".","g","i","t","h","u","b","u","s","e","r","c","o","n","t","e","n","t",".","c","o","m">>
HostSub == <<"a","p","i",".","g","i","t","h","u","b",".","c","o","m">>
HostUpper == <<"G","i","t","H","u","b",".","c","o","m">>
HostLookalike == <<"e","v","i","l","g","i","t","h","u","b",".","c","o","m">>
HostOther == <<"e","x","a","m","p","l","e",".","o","r","g">>

SUMS_JSON == <<"c","h","e","c","k","s","u","m","s",".","j","s","o","n">>
KEY_PEM == <<"f","e","e","d","-","s","i","g","n","i","n","g","-","p","u","b","l","i","c",".","p","e","m">>

FA1 == FeedText(DocA, 1)
FA2 == FeedText(DocA, 2)
FB == FeedText(DocB, 1)
FC == FeedText(DocC, 1)
FNoId == FeedText(DocNoId, 1)

Base64Sig(k, text) == SigText("base64", Sign(k, text))
JsonSig(k, text) == SigText("json", Sign(k, text))
BlankSig == SigText("blank", GarbageBytes)
BrokenJsonSig == SigText("brokenJson", GarbageBytes)
JsonNoFieldSig == SigText("jsonNoField", GarbageBytes)

\* Checksum manifests.
Entry(name, text) == [name |-> name, form |-> "string", hex |-> Digest(text)]
ManifestDoc(files) ==
    [isObject |-> TRUE, algorithm |-> <<"s","h","a","2","5","6">>,
     schema_version |-> <<"1">>, version |-> Null, generated_at |-> Null,
     filesIsObject |-> TRUE, files |-> files]
ManifestText(doc) == [kind |-> "text", is |-> "manifest", json |-> TRUE, doc |-> doc]
NotJsonManifest == [kind |-> "text", is |-> "manifest", json |-> FALSE, doc |-> ManifestDoc(<<>>)]

\* The manifest a publisher makes for a feed text, its signature file and
\* the pinned public key.
ManifestFor(feedText, sigText) ==
    ManifestText(ManifestDoc(<< Entry(FEED_JSON, feedText),
                                Entry(FEED_JSON_SIG, sigText),
                                Entry(KEY_PEM, PemText(PinnedKey)) >>))

DefaultUrls ==
    [feed |-> Url("https:", HostRaw, FEED_JSON),
     sig |-> Url("https:", HostRaw, FEED_JSON_SIG),
     sums |-> Url("https:", HostRaw, SUMS_JSON),
     sumsSig |-> Url("https:", HostRaw, SUMS_JSON \o <<".","s","i","g">>)]

\* The four network answers: the feed's, the signature's, the manifest's and
\* the manifest signature made by `signer` ("none": it is not served).
Net(feedAnswer, sigAnswer, sumsAnswer, signer) ==
    [feed |-> feedAnswer, sig |-> sigAnswer, sums |-> sumsAnswer,
     sumsSig |-> IF signer = "none" THEN NetStatus
                 ELSE NetOk(Base64Sig(signer, sumsAnswer.body))]

\* A publisher serving feedText, signed and checksummed with the pinned key.
GoodNet(feedText) ==
    Net(NetOk(feedText), NetOk(Base64Sig(PinnedKey, feedText)),
        NetOk(ManifestFor(feedText, Base64Sig(PinnedKey, feedText))), PinnedKey)
DownNet == [feed |-> NetError, sig |-> NetError, sums |-> NetError, sumsSig |-> NetError]

\* Local files: feed, sig, sums, sumsSig (NoResult: the file is absent).
Files(feedFile, sigFile, sumsFile, signer) ==
    [feed |-> feedFile, sig |-> sigFile, sums |-> sumsFile,
     sumsSig |-> IF signer = "none" \/ sumsFile.kind = "null" THEN NoResult
                 ELSE Base64Sig(signer, sumsFile)]
GoodFiles(feedText) ==
    Files(feedText, Base64Sig(PinnedKey, feedText),
          ManifestFor(feedText, Base64Sig(PinnedKey, feedText)), PinnedKey)
NoFiles == [feed |-> NoResult, sig |-> NoResult, sums |-> NoResult, sumsSig |-> NoResult]

Env(allowUnsigned, verifyChecksumManifest, keyFile, urls, net, files) ==
    [allowUnsigned |-> allowUnsigned, verifyChecksumManifest |-> verifyChecksumManifest,
     keyFile |-> keyFile, keyEntry |-> KEY_PEM, w |-> [urls |-> urls, net |-> net],
     files |-> files]

(***************************************************************************)
(* lib/matching.ts                                                         *)
(*                                                                         *)
(* The install root: readable (FALSE when readdir fails) and entries, each *)
(* with name, isDirectory and its skill.json: json ("ok", "invalid" or     *)
(* "missing"), isObject, skillName and version (texts, Null when absent or *)
(* not a string).                                                          *)
(***************************************************************************)

discoverInstalledSkills(root) ==
    IF ~root.readable THEN <<>>
    ELSE LET dirs == SelectSeq(root.entries, LAMBDA e : e.isDirectory)
             Skill(e) ==
                 LET parsed == e.json = "ok"
                     skillName == IF parsed /\ e.isObject /\ NonEmptyString(e.skillName)
                                  THEN Trim(e.skillName) ELSE e.name
                     version == IF parsed /\ e.isObject /\ NonEmptyString(e.version)
                                THEN Trim(e.version) ELSE Unknown
                 IN [name |-> skillName, dirName |-> e.name, version |-> version]
         IN [i \in 1..Len(dirs) |-> Skill(dirs[i])]

\* Lines 52-58, on the parsed specifier.
ParsedMatchesSkill(parsed, skill) ==
    IF ~parsed.ok THEN FALSE
    ELSE IF normalizeSkillName(parsed.name) # normalizeSkillName(skill.name) THEN FALSE
    ELSE versionMatches(skill.version, parsed.versionSpec)

affectedSpecifierMatchesSkill(rawSpecifier, skill) ==
    ParsedMatchesSkill(parseAffectedSpecifier(rawSpecifier), skill)

\* Array.isArray(advisory.affected) ? advisory.affected : []
AffectedOf(advisory) == IF advisory.affectedIsArray THEN advisory.affected ELSE <<>>

\* The satisfying specifiers as they come, repeated ones included.
advisoryMatchesSkillMutNoDedup(advisory, skill) ==
    SelectSeq(AffectedOf(advisory),
              LAMBDA specifier : affectedSpecifierMatchesSkill(specifier, skill))

advisoryMatchesSkill(advisory, skill) ==
    uniqueStrings(SelectSeq(AffectedOf(advisory),
                            LAMBDA specifier : affectedSpecifierMatchesSkill(specifier, skill)))

\* Lines 74-77: the match pushed for one advisory and one skill, if any.
MatchIf(advisory, skill, matchedAffected) ==
    IF matchedAffected = <<>> THEN <<>>
    ELSE << [advisory |-> advisory, skill |-> skill, matchedAffected |-> matchedAffected] >>

RECURSIVE MatchesOfAdvisory(_, _, _)
MatchesOfAdvisory(advisory, installedSkills, j) ==
    IF j > Len(installedSkills) THEN <<>>
    ELSE MatchIf(advisory, installedSkills[j], advisoryMatchesSkill(advisory, installedSkills[j]))
         \o MatchesOfAdvisory(advisory, installedSkills, j + 1)

RECURSIVE MatchesFrom(_, _, _)
MatchesFrom(advisories, installedSkills, i) ==
    IF i > Len(advisories) THEN <<>>
    ELSE (IF AffectedOf(advisories[i]) = <<>> THEN <<>>
          ELSE MatchesOfAdvisory(advisories[i], installedSkills, 1))
         \o MatchesFrom(advisories, installedSkills, i + 1)

\* The matches in the order the two nested loops push them.
findMatches(feed, installedSkills) == MatchesFrom(feed.advisories, installedSkills, 1)

\* A key without the installed version.
matchKeyMutNoVersion(match) ==
    match.advisory.id \o <<":", ":">> \o normalizeSkillName(match.skill.name)

\* `${advisoryId}::${normalizedSkillName}@${version}`; the advisory of a match
\* comes from a feed that passed isValidFeedPayload, so its id is a string.
matchKey(match) ==
    LET normalizedSkillName == normalizeSkillName(match.skill.name)
        version == IF match.skill.version = Null THEN Unknown ELSE match.skill.version
        advisoryId == match.advisory.id
    IN advisoryId \o <<":", ":">> \o normalizedSkillName \o <<"@">> \o version

\* /\\b(w1|w2|...)\\b/.test(text): one of the words stands in the text with a
\* word boundary on each side (a word character is a letter, a digit or "_").
IsWordChar(c) ==
    \/ \E i \in 1..Len(LowerChars) : LowerChars[i] = c \/ UpperChars[i] = c
    \/ IsDigit(c)
    \/ c = "_"

WordAt(text, word, i) ==
    /\ i + Len(word) - 1 <= Len(text)
    /\ SubSeq(text, i, i + Len(word) - 1) = word
    /\ (i = 1 \/ ~IsWordChar(text[i - 1]))
    /\ (i + Len(word) > Len(text) \/ ~IsWordChar(text[i + Len(word)]))

TestWords(words, text) ==
    \E w \in words : \E i \in 1..Len(text) : WordAt(text, w, i)

MaliciousTypes == { <<"m","a","l","i","c","i","o","u","s","_","s","k","i","l","l">>,
                    <<"m","a","l","i","c","i","o","u","s","_","p","l","u","g","i","n">> }
MaliciousWords ==
    { <<"m","a","l","i","c","i","o","u","s">>, <<"e","x","f","i","l","t","r","a","t","e">>,
      <<"e","x","f","i","l","t","r","a","t","i","o","n">>,
      <<"b","a","c","k","d","o","o","r">>, <<"t","r","o","j","a","n">>,
      <<"c","r","e","d","e","n","t","i","a","l"," ","t","h","e","f","t">>,
      <<"s","t","e","a","l","e","r">> }
RemovalWords ==
    { <<"r","e","m","o","v","e">>, <<"u","n","i","n","s","t","a","l","l">>,
      <<"d","e","l","e","t","e">>, <<"d","i","s","a","b","l","e">>,
      <<"d","o"," ","n","o","t"," ","u","s","e">>,
      <<"q","u","a","r","a","n","t","i","n","e">> }

\* Lines 93-100; title, description and action are Null when absent.
looksMalicious(advisory) ==
    \/ ToLower(Str(advisory.type)) \in MaliciousTypes
    \/ TestWords(MaliciousWords,
                 ToLower(Str(advisory.title) \o <<" ">> \o Str(advisory.description)
                         \o <<" ">> \o Str(advisory.action)))

\* Lines 102-105.
looksRemovalRecommended(advisory) ==
    TestWords(RemovalWords,
              ToLower(Str(advisory.action) \o <<" ">> \o Str(advisory.title)
                      \o <<" ">> \o Str(advisory.description)))

\* path.join(installRoot, dir) for a root without trailing "/" and the name
\* of a directory entry.
PathJoin(installRoot, dir) == installRoot \o <<"/">> \o dir

MAX_LISTED == 8

\* A line of the alert: the fixed text of its template and the values put
\* into it, in their order; count is the number put into the line of the
\* matches that are not shown.
Line(fixed, items) == [fixed |-> fixed, items |-> items, count |-> 0]

\* Lines 114-124: the lines listing one match.
MatchLines(match) ==
    << Line("- [severity] advisoryId -> name@version (matched: ...)",
            << ToUpper(IF match.advisory.severity = Null THEN Unknown
                       ELSE match.advisory.severity),
               IF match.advisory.id = Null THEN <<"u","n","k","n","o","w","n","-","i","d">> ELSE match.advisory.id,
               match.skill.name,
               IF match.skill.version = Null THEN Unknown ELSE match.skill.version >>
            \o match.matchedAffected) >>
    \o (IF Str(match.advisory.action) # <<>>
        THEN << Line("  Action: ", <<match.advisory.action>>) >> ELSE <<>>)

RECURSIVE ListedLines(_, _)
ListedLines(matches, i) ==
    IF i > Len(matches) \/ i > MAX_LISTED THEN <<>>
    ELSE MatchLines(matches[i]) \o ListedLines(matches, i + 1)

\* Lines 108-151, on the matches and on those of them that line 131 keeps;
\* the message is these lines joined by a line feed.
AlertLines(matches, removalMatches, installRoot) ==
    << Line("CLAWSEC ALERT: advisory feed matches installed skill(s).", <<>>),
       Line("Affected skill advisories:", <<>>) >>
    \o ListedLines(matches, 1)
    \o (IF Len(matches) > MAX_LISTED
        THEN << [Line("- ... additional match(es) not shown", <<>>) EXCEPT
                    !.count = Len(matches) - MAX_LISTED] >>
        ELSE <<>>)
    \o (IF Len(removalMatches) > 0
        THEN << Line("", <<>>),
                Line("Recommendation: one or more matches indicate potentially malicious or unsafe skills.", <<>>),
                Line("Best practice: remove or disable affected skills only after explicit user approval.", <<>>),
                Line("Double-confirmation policy: treat the install request as first intent and require an additional explicit confirmation with this advisory context.", <<>>),
                Line("Approval needed: ask the user to approve removal of: ",
                     uniqueStrings([i \in 1..Len(removalMatches) |-> removalMatches[i].skill.name])),
                Line("Candidate removal paths:", <<>>) >>
             \o [i \in 1..Len(uniqueStrings([j \in 1..Len(removalMatches) |->
                                                 removalMatches[j].skill.dirName])) |->
                    Line("- ", << PathJoin(installRoot,
                                           uniqueStrings([j \in 1..Len(removalMatches) |->
                                               removalMatches[j].skill.dirName])[i]) >>)]
        ELSE << Line("", <<>>),
                Line("Recommendation: review advisories and update/remove affected skills as directed.", <<>>) >>)

UnsafeMatch(match) == looksMalicious(match.advisory) \/ looksRemovalRecommended(match.advisory)

\* An alert that looks for unsafe advisories among the listed matches only.
buildAlertMessageMutListed(matches, installRoot) ==
    AlertLines(matches,
               SelectSeq(SubSeq(matches, 1, IF Len(matches) > MAX_LISTED THEN MAX_LISTED
                                            ELSE Len(matches)),
                         UnsafeMatch),
               installRoot)

buildAlertMessage(matches, installRoot) ==
    AlertLines(matches, SelectSeq(matches, UnsafeMatch), installRoot)

(***************************************************************************)
(* lib/state.ts                                                            *)
(*                                                                         *)
(* A timestamp value: Iso(ms) (an ISO date string), NullTime (null),       *)
(* TextTime (a string that is no date), BlankTime (a blank string) or      *)
(* OtherTime (a JSON value that is no string).                             *)
(* notified_matches is a function from dedup keys to timestamp values.     *)
(* A state file is missing, corrupt (no JSON) or holds a JSON value.       *)
(***************************************************************************)

Iso(ms) == [t |-> "iso", ms |-> ms]
NullTime == [t |-> "null", ms |-> 0]

IsString(time) == time.t \in {"iso", "text", "blank"}

NoMatches == [k \in {} |-> NullTime]

\* DEFAULT_STATE; its notified_matches is one object of the module, which
\* every shallow copy { ...DEFAULT_STATE } shares.
DEFAULT_STATE(sharedNotified) ==
    [isObject |-> TRUE,
     schema_version |-> <<"1",".","1">>,
     known_advisories |-> <<>>,
     last_feed_check |-> NullTime,
     last_feed_updated |-> Null,
     last_hook_scan |-> NullTime,
     notified_matches |-> sharedNotified]

\* normalizeState; `shared` tells whether the result's notified_matches is
\* the object of DEFAULT_STATE.
normalizeState(raw, sharedNotified) ==
    IF ~raw.isObject THEN [state |-> DEFAULT_STATE(sharedNotified), shared |-> TRUE]
    ELSE [state |->
            [isObject |-> TRUE,
             schema_version |-> <<"1",".","1">>,
             known_advisories |-> uniqueStrings(SelectSeq(raw.known_advisories, NonEmptyString)),
             last_feed_check |-> IF IsString(raw.last_feed_check) THEN raw.last_feed_check ELSE NullTime,
             last_feed_updated |-> raw.last_feed_updated,
             last_hook_scan |-> IF IsString(raw.last_hook_scan) THEN raw.last_hook_scan ELSE NullTime,
             notified_matches |->
                 [k \in {key \in DOMAIN raw.notified_matches :
                            raw.notified_matches[key].t \in {"iso", "text"}}
                    |-> raw.notified_matches[k]]],
          shared |-> FALSE]

MissingFile == [kind |-> "missing", value |-> DEFAULT_STATE(NoMatches)]
CorruptFile == [kind |-> "corrupt", value |-> DEFAULT_STATE(NoMatches)]
JsonFile(value) == [kind |-> "json", value |-> value]

loadState(file, sharedNotified) ==
    IF file.kind = "json" THEN normalizeState(file.value, sharedNotified)
    ELSE [state |-> DEFAULT_STATE(sharedNotified), shared |-> TRUE]

\* What persistState writes: the normalized state as a JSON file.
PersistedFile(state) == JsonFile(normalizeState(state, NoMatches).state)

(***************************************************************************)
(* handler.ts                                                              *)
(***************************************************************************)

DEFAULT_SCAN_INTERVAL_SECONDS == 300

AGENT_BOOTSTRAP == <<"a","g","e","n","t",":","b","o","o","t","s","t","r","a","p">>
COMMAND_NEW == <<"c","o","m","m","a","n","d",":","n","e","w">>

parsePositiveInteger(value, fallback) ==
    LET parsed == ParseInt(Str(value))
    IN IF parsed = NaN \/ parsed <= 0 THEN fallback ELSE parsed

toEventName(event) ==
    LET eventType == Trim(Str(event.type))
        action == Trim(Str(event.action))
    IN IF eventType = <<>> \/ action = <<>> THEN <<>>
       ELSE eventType \o <<":">> \o action

\* Only the action is looked at.
shouldHandleEventMutAction(event) ==
    Trim(Str(event.action)) \in {<<"b","o","o","t","s","t","r","a","p">>, <<"n","e","w">>}

shouldHandleEvent(event) ==
    LET eventName == toEventName(event)
    IN eventName = AGENT_BOOTSTRAP \/ eventName = COMMAND_NEW

epochMs(isoTimestamp) == IF isoTimestamp.t = "iso" THEN isoTimestamp.ms ELSE 0

\* The interval taken as milliseconds.
scannedRecentlyMutMs(lastScan, minIntervalSeconds, dateNow) ==
    dateNow - epochMs(lastScan) >= 0 /\ dateNow - epochMs(lastScan) < minIntervalSeconds

scannedRecently(lastScan, minIntervalSeconds, dateNow) ==
    LET sinceMs == dateNow - epochMs(lastScan)
    IN sinceMs >= 0 /\ sinceMs < minIntervalSeconds * 1000

\* The loop without line 188: no key is marked.
UnseenFromMutNoMark(matches, i, notified, nowIso) ==
    [unseen |-> SelectSeq(matches, LAMBDA m : matchKey(m) \notin DOMAIN notified),
     notified |-> notified]

\* Lines 181-189: the matches not yet notified, each key marked as it is met.
RECURSIVE UnseenFrom(_, _, _, _)
UnseenFrom(matches, i, notified, nowIso) ==
    IF i > Len(matches) THEN [unseen |-> <<>>, notified |-> notified]
    ELSE LET key == matchKey(matches[i])
         IN IF key \in DOMAIN notified
            THEN UnseenFrom(matches, i + 1, notified, nowIso)
            ELSE LET marked == [k \in DOMAIN notified \cup {key} |->
                                   IF k = key THEN nowIso ELSE notified[k]]
                     rest == UnseenFrom(matches, i + 1, marked, nowIso)
                 IN [unseen |-> <<matches[i]>> \o rest.unseen, notified |-> rest.notified]

\* What one invocation did when it returned without scanning: at line 92
\* ("ignored", before loadState is called), at line 137 ("skipped") or at
\* line 157 ("loadFailed"), both after line 135 has read the state file.
Quiet(step, file, sharedNotified, lf) ==
    [step |-> step, file |-> file, sharedNotified |-> sharedNotified,
     alert |-> <<>>, pushed |-> FALSE, writes |-> 0,
     stateReads |-> IF step \in {"skipped", "loadFailed"} THEN 1 ELSE 0,
     settled |-> "resolved",
     fetched |-> lf.remote.touched, read |-> lf.local.touched, failure |-> lf.result,
     feed |-> NoResult, installed |-> <<>>]

NoLoad == [result |-> NoResult, source |-> "none", remote |-> NotRun, local |-> NotRun]

\* What lines 140-174 obtain from the world: the feed that loadFeed returns
\* or the error it throws, the installed skills and the matches.
ScanWith(lf, installedSkills) ==
    [lf |-> lf, installedSkills |-> installedSkills,
     matches |-> IF IsThrow(lf.result) THEN <<>>
                 ELSE findMatches(lf.result.feed, installedSkills)]

Scan(env, root) == ScanWith(loadFeed(env), discoverInstalledSkills(root))

\* A scan that keeps only the ids of the feed it loaded.
ScanDoneMutReplace(event, scan, sharedNotified, loaded, nowIso, u) ==
    [step |-> "scanned",
     file |-> PersistedFile(
                 [loaded.state EXCEPT
                     !.last_hook_scan = nowIso,
                     !.last_feed_check = nowIso,
                     !.last_feed_updated =
                         IF NonEmptyString(scan.lf.result.feed.updated)
                         THEN scan.lf.result.feed.updated ELSE @,
                     !.known_advisories =
                         uniqueStrings(SelectSeq(
                             [i \in 1..Len(scan.lf.result.feed.advisories) |->
                                 scan.lf.result.feed.advisories[i].id],
                             NonEmptyString)),
                     !.notified_matches = u.notified]),
     sharedNotified |-> IF loaded.shared THEN u.notified ELSE sharedNotified,
     alert |-> [i \in 1..Len(u.unseen) |-> matchKey(u.unseen[i])],
     pushed |-> u.unseen # <<>> /\ event.messagesIsArray,
     writes |-> 1, stateReads |-> 1, settled |-> "resolved",
     fetched |-> scan.lf.remote.touched, read |-> scan.lf.local.touched,
     failure |-> NoResult,
     feed |-> scan.lf.result, installed |-> scan.installedSkills]

\* Lines 160-195: the scan. The state is what loadState returned, u the
\* outcome of the loop over the matches; without matches the loop marks
\* nothing and line 177 persists the same state as line 195 would.
ScanDone(event, scan, sharedNotified, loaded, nowIso, u) ==
    [step |-> "scanned",
     file |-> PersistedFile(
                 [loaded.state EXCEPT
                     !.last_hook_scan = nowIso,
                     !.last_feed_check = nowIso,
                     !.last_feed_updated =
                         IF NonEmptyString(scan.lf.result.feed.updated)
                         THEN scan.lf.result.feed.updated ELSE @,
                     !.known_advisories =
                         uniqueStrings(@ \o SelectSeq(
                             [i \in 1..Len(scan.lf.result.feed.advisories) |->
                                 scan.lf.result.feed.advisories[i].id],
                             NonEmptyString)),
                     !.notified_matches = u.notified]),
     sharedNotified |-> IF loaded.shared THEN u.notified ELSE sharedNotified,
     alert |-> [i \in 1..Len(u.unseen) |-> matchKey(u.unseen[i])],
     pushed |-> u.unseen # <<>> /\ event.messagesIsArray,
     writes |-> 1, stateReads |-> 1, settled |-> "resolved",
     fetched |-> scan.lf.remote.touched, read |-> scan.lf.local.touched,
     failure |-> NoResult,
     feed |-> scan.lf.result, installed |-> scan.installedSkills]

\* A handler that records the scan time although the feed failed to load.
HandleLoadedMutWrite(event, scan, file, sharedNotified, dateNow, scanIntervalSeconds, loaded) ==
    IF toEventName(event) # COMMAND_NEW
       /\ scannedRecently(loaded.state.last_hook_scan, scanIntervalSeconds, dateNow)
    THEN Quiet("skipped", file, sharedNotified, NoLoad)
    ELSE IF IsThrow(scan.lf.result)
         THEN [Quiet("loadFailed", file, sharedNotified, scan.lf) EXCEPT
                  !.file = PersistedFile([loaded.state EXCEPT !.last_hook_scan = Iso(dateNow)]),
                  !.writes = 1]
    ELSE ScanDone(event, scan, sharedNotified, loaded, Iso(dateNow),
                  UnseenFrom(scan.matches, 1, loaded.state.notified_matches, Iso(dateNow)))

\* A handler that returns at line 176 without persisting.
HandleLoadedMutSkipEmpty(event, scan, file, sharedNotified, dateNow, scanIntervalSeconds, loaded) ==
    IF toEventName(event) # COMMAND_NEW
       /\ scannedRecently(loaded.state.last_hook_scan, scanIntervalSeconds, dateNow)
    THEN Quiet("skipped", file, sharedNotified, NoLoad)
    ELSE IF IsThrow(scan.lf.result) THEN Quiet("loadFailed", file, sharedNotified, scan.lf)
    ELSE IF scan.matches = <<>>
         THEN [Quiet("scanned", file, sharedNotified, scan.lf) EXCEPT
                  !.stateReads = 1, !.failure = NoResult,
                  !.feed = scan.lf.result, !.installed = scan.installedSkills]
    ELSE ScanDone(event, scan, sharedNotified, loaded, Iso(dateNow),
                  UnseenFrom(scan.matches, 1, loaded.state.notified_matches, Iso(dateNow)))

\* Lines 134-158, on the state that loadState returned.
HandleLoaded(event, scan, file, sharedNotified, dateNow, scanIntervalSeconds, loaded) ==
    IF toEventName(event) # COMMAND_NEW
       /\ scannedRecently(loaded.state.last_hook_scan, scanIntervalSeconds, dateNow)
    THEN Quiet("skipped", file, sharedNotified, NoLoad)
    ELSE IF IsThrow(scan.lf.result) THEN Quiet("loadFailed", file, sharedNotified, scan.lf)
    ELSE ScanDone(event, scan, sharedNotified, loaded, Iso(dateNow),
                  UnseenFrom(scan.matches, 1, loaded.state.notified_matches, Iso(dateNow)))

\* The handler: one invocation on `event`, with scan = Scan(env, root) of
\* the feed world and the install root, the state file, the
\* notified_matches object of DEFAULT_STATE, the clock and
\* CLAWSEC_HOOK_INTERVAL_SECONDS.
handler(event, scan, file, sharedNotified, dateNow, intervalEnv) ==
    IF ~shouldHandleEvent(event) THEN Quiet("ignored", file, sharedNotified, NoLoad)
    ELSE HandleLoaded(event, scan, file, sharedNotified, dateNow,
                      parsePositiveInteger(intervalEnv, DEFAULT_SCAN_INTERVAL_SECONDS),
                      loadState(file, sharedNotified))

\* Lines 177 and 195 when persistState throws before its rename (mkdir or
\* writeFile fails): the await is in no try block, so the promise of the
\* handler rejects; the state file stays as it was, while what the loop of
\* lines 181-189 wrote into the state object in memory stays written.
PersistThrows(did, file) ==
    IF did.writes = 0 THEN did
    ELSE [did EXCEPT !.file = file, !.settled = "rejected"]

(***************************************************************************)
(* scripts/guarded_skill_install.mjs: the guard gate                       *)
(*                                                                         *)
(* argv is a sequence of texts.  The installer is what spawnSync of the    *)
(* external install command yields: error (it cannot be spawned) or a      *)
(* status, Null when a signal ended it.                                    *)
(***************************************************************************)

EXIT_CONFIRM_REQUIRED == 42

ARG_SKILL == <<"-","-","s","k","i","l","l">>
ARG_VERSION == <<"-","-","v","e","r","s","i","o","n">>
ARG_CONFIRM == <<"-","-","c","o","n","f","i","r","m","-","a","d","v","i","s","o","r","y">>
ARG_DRY_RUN == <<"-","-","d","r","y","-","r","u","n">>
ARG_HELP == <<"-","-","h","e","l","p">>
ARG_H == <<"-","h">>

\* /^[a-z0-9-]+$/
SkillCharsOk(skill) ==
    /\ skill # <<>>
    /\ \A i \in 1..Len(skill) :
          \/ \E j \in 1..Len(LowerChars) : LowerChars[j] = skill[i]
          \/ IsDigit(skill[i])
          \/ skill[i] = "-"

\* argv[i + 1] ?? "", trimmed
ArgValue(argv, i) == IF i + 1 <= Len(argv) THEN Trim(argv[i + 1]) ELSE <<>>

\* Lines 142-149: the checks after the loop.
CheckedArgs(parsed) ==
    IF parsed.skill = <<>> THEN Throw("Missing required argument: --skill")
    ELSE IF ~SkillCharsOk(parsed.skill) THEN Throw("Invalid --skill value")
    ELSE parsed

\* Lines 119-140: the loop over argv from token i on.
RECURSIVE ParseFrom(_, _, _)
ParseFrom(argv, i, parsed) ==
    IF i > Len(argv) THEN CheckedArgs(parsed)
    ELSE IF argv[i] = ARG_SKILL
         THEN ParseFrom(argv, i + 2, [parsed EXCEPT !.skill = ArgValue(argv, i)])
    ELSE IF argv[i] = ARG_VERSION
         THEN ParseFrom(argv, i + 2, [parsed EXCEPT !.version = ArgValue(argv, i)])
    ELSE IF argv[i] = ARG_CONFIRM
         THEN ParseFrom(argv, i + 1, [parsed EXCEPT !.confirmAdvisory = TRUE])
    ELSE IF argv[i] = ARG_DRY_RUN
         THEN ParseFrom(argv, i + 1, [parsed EXCEPT !.dryRun = TRUE])
    ELSE IF argv[i] = ARG_HELP \/ argv[i] = ARG_H
         THEN [kind |-> "exit", status |-> 0]
    ELSE Throw("Unknown argument")

parseArgs(argv) ==
    ParseFrom(argv, 1, [kind |-> "args", skill |-> <<>>, version |-> <<>>,
                        confirmAdvisory |-> FALSE, dryRun |-> FALSE])

GateParsedMatches(parsed, skillName, version) ==
    IF ~parsed.ok THEN FALSE
    ELSE IF normalizeSkillName(parsed.name) # normalizeSkillName(skillName) THEN FALSE
    ELSE versionMatches(version, parsed.versionSpec)

affectedSpecifierMatches(specifier, skillName, version) ==
    GateParsedMatches(parseAffectedSpecifier(specifier), skillName, version)

GateParsedMatchesName(parsed, skillName) ==
    IF ~parsed.ok THEN FALSE
    ELSE normalizeSkillName(parsed.name) = normalizeSkillName(skillName)

affectedSpecifierMatchesWithoutVersion(specifier, skillName) ==
    GateParsedMatchesName(parseAffectedSpecifier(specifier), skillName)

\* A matcher that compares versions also when no version is given.
GateMatchedAffectedMutAlwaysVersion(advisory, skillName, version) ==
    uniqueStrings(SelectSeq(AffectedOf(advisory),
        LAMBDA specifier : affectedSpecifierMatches(specifier, skillName, version)))

\* Lines 235-242: the specifiers of one advisory that match the target.
GateMatchedAffected(advisory, skillName, version) ==
    uniqueStrings(SelectSeq(AffectedOf(advisory),
        LAMBDA specifier :
            IF version # <<>> THEN affectedSpecifierMatches(specifier, skillName, version)
            ELSE affectedSpecifierMatchesWithoutVersion(specifier, skillName)))

GateMatchIf(advisory, matchedAffected) ==
    IF matchedAffected = <<>> THEN <<>>
    ELSE << [advisory |-> advisory, matchedAffected |-> matchedAffected] >>

RECURSIVE GateMatchesFrom(_, _, _, _)
GateMatchesFrom(advisories, skillName, version, i) ==
    IF i > Len(advisories) THEN <<>>
    ELSE (IF AffectedOf(advisories[i]) = <<>> THEN <<>>
          ELSE GateMatchIf(advisories[i], GateMatchedAffected(advisories[i], skillName, version)))
         \o GateMatchesFrom(advisories, skillName, version, i + 1)

\* findMatches of the gate
gateFindMatches(feed, skillName, version) ==
    GateMatchesFrom(feed.advisories, skillName, version, 1)

\* How a run of the gate ends: the exit status of the process, the install
\* commands spawned (their targets), and what the run saw on the way.
GateEnd(status, spawned, args, lf, matches) ==
    [exit |-> status, spawned |-> spawned, args |-> args, lf |-> lf, matches |-> matches]

InstallerError == [error |-> TRUE, status |-> Num(0)]
InstallerStatus(status) == [error |-> FALSE, status |-> status]

\* `${skillName}@${version}` or skillName
InstallTarget(skillName, version) ==
    IF version # <<>> THEN skillName \o <<"@">> \o version ELSE skillName

\* An installer run that ends the process with 1 whenever the installer failed.
runInstallMutAlwaysOne(skillName, version, installer) ==
    [spawned |-> << InstallTarget(skillName, version) >>,
     exit |-> IF installer.error \/ installer.status # Num(0) THEN 1 ELSE 0]

\* runInstall, and the exit status the process then ends with: 1 through
\* main().catch when the spawn fails, the installer's status (1 when it is
\* null) when it is not 0, else 0.
runInstall(skillName, version, installer) ==
    [spawned |-> << InstallTarget(skillName, version) >>,
     exit |-> IF installer.error THEN 1
              ELSE IF installer.status # Num(0)
                   THEN (IF installer.status = Null THEN 1 ELSE installer.status[2])
              ELSE 0]

\* An installer run as the end of the gate's run.
Installed(ran, args, lf, matches) == GateEnd(ran.exit, ran.spawned, args, lf, matches)

\* A gate that looks at --dry-run before the confirmation.
DecideMutDryRunFirst(args, lf, matches, installer) ==
    IF args.dryRun THEN GateEnd(0, <<>>, args, lf, matches)
    ELSE IF matches # <<>> /\ ~args.confirmAdvisory
         THEN GateEnd(EXIT_CONFIRM_REQUIRED, <<>>, args, lf, matches)
    ELSE Installed(runInstall(args.skill, args.version, installer), args, lf, matches)

\* A gate that does not look at --dry-run.
DecideMutIgnoreDryRun(args, lf, matches, installer) ==
    IF matches # <<>> /\ ~args.confirmAdvisory
    THEN GateEnd(EXIT_CONFIRM_REQUIRED, <<>>, args, lf, matches)
    ELSE Installed(runInstall(args.skill, args.version, installer), args, lf, matches)

\* Lines 298-325 of main.
Decide(args, lf, matches, installer) ==
    IF matches # <<>> /\ ~args.confirmAdvisory
    THEN GateEnd(EXIT_CONFIRM_REQUIRED, <<>>, args, lf, matches)
    ELSE IF args.dryRun THEN GateEnd(0, <<>>, args, lf, matches)
    ELSE Installed(runInstall(args.skill, args.version, installer), args, lf, matches)

\* A gate that goes on without advisories when loadFeed throws.
AfterLoadMutProceed(args, lf, installer) ==
    IF IsThrow(lf.result) THEN Decide(args, lf, <<>>, installer)
    ELSE Decide(args, lf, gateFindMatches(lf.result.feed, args.skill, args.version), installer)

\* Lines 286-287 of main: a loadFeed that throws ends the run with 1.
AfterLoad(args, lf, installer) ==
    IF IsThrow(lf.result) THEN GateEnd(1, <<>>, args, lf, <<>>)
    ELSE Decide(args, lf, gateFindMatches(lf.result.feed, args.skill, args.version), installer)

\* Line 285 of main: parseArgs throws (exit 1), exits 0 for --help, or returns.
AfterParse(args, env, installer) ==
    IF IsThrow(args) THEN GateEnd(1, <<>>, args, NoLoad, <<>>)
    ELSE IF args.kind = "exit" THEN GateEnd(args.status, <<>>, args, NoLoad, <<>>)
    ELSE AfterLoad(args, loadFeed(env), installer)

\* One run of the gate: main with its catch.
main(argv, env, installer) == AfterParse(parseArgs(argv), env, installer)

(***************************************************************************)
(* The hook as a state machine: invocations of the handler, one after the  *)
(* other in one host process, the clock advancing and the host process     *)
(* restarting in between.                                                  *)
(***************************************************************************)

VARIABLES
    stateFile,       \* the state file
    sharedNotified,  \* DEFAULT_STATE.notified_matches of the running process
    now,             \* Date.now()
    intervalEnv,     \* CLAWSEC_HOOK_INTERVAL_SECONDS
    last,            \* the latest invocation: its inputs and what it did
    prev,            \* the invocation before it
    invocations,     \* invocations so far
    ticks,           \* clock advances so far
    load,            \* a loader run: the world it runs in and its outcome
    gate,            \* a run of the guard gate: its inputs and how it ended
    dir,             \* the directory of the state file: path -> inode, 0 when absent
    inodes,          \* the content of every inode, as the chunks written to it
    calls,           \* the persistState calls: where each stands
    reader,          \* a loadState call: where it stands and what it read
    clock,           \* Date.now() of the persistState calls
    committed,       \* the state file last published whole by a rename
    race,            \* hook invocations in separate processes: what each did
    pure             \* a function applied on its own: its arguments and its result

hookVars == <<stateFile, sharedNotified, now, intervalEnv, last, prev, invocations, ticks>>
loadVars == <<load>>
gateVars == <<gate>>
persistVars == <<dir, inodes, calls, reader, clock, committed>>
raceVars == <<race>>
pureVars == <<pure>>
vars == <<hookVars, loadVars, gateVars, persistVars, raceVars, pureVars>>

\* The variables of the other state machines, which the hook leaves alone.
notHook == <<loadVars, gateVars, persistVars, raceVars, pureVars>>
notLoad == <<hookVars, gateVars, persistVars, raceVars, pureVars>>
notGate == <<hookVars, loadVars, persistVars, raceVars, pureVars>>
notPersist == <<hookVars, loadVars, gateVars, raceVars, pureVars>>
notRace == <<hookVars, loadVars, gateVars, pureVars>>
notPure == <<hookVars, loadVars, gateVars, persistVars, raceVars>>

MaxInvocations == 2
MaxTicks == 1
StartTime == 1000000

\* Clock advances in ms, around one second.
Jumps == {999, 1000}

Event(type, action, messagesIsArray) ==
    [type |-> type, action |-> action, messagesIsArray |-> messagesIsArray]

Events ==
    { Event(<<" ","a","g","e","n","t">>, <<"b","o","o","t","s","t","r","a","p"," ">>, TRUE),
      Event(<<"c","o","m","m","a","n","d">>, <<"n","e","w">>, TRUE),
      Event(<<"c","o","m","m","a","n","d">>, <<"n","e","w">>, FALSE),
      Event(<<"c","o","m","m","a","n","d">>, <<"s","t","o","p">>, TRUE),
      Event(Null, <<"n","e","w">>, TRUE),
      Event(<<"a","g","e","n","t">>, <<" ">>, TRUE) }

\* Feed worlds of the hook.
HookEnvs ==
    { Env(FALSE, TRUE, PemText(PinnedKey), DefaultUrls, GoodNet(FA1), NoFiles),
      Env(FALSE, TRUE, PemText(PinnedKey), DefaultUrls, DownNet, GoodFiles(FB)),
      Env(FALSE, TRUE, PemText(PinnedKey), DefaultUrls, DownNet,
          Files(FA1, NoResult, NoResult, "none")),
      Env(FALSE, TRUE, PemText(PinnedKey),
          [DefaultUrls EXCEPT !.sig = Url("https:", HostOther, FEED_JSON_SIG)],
          GoodNet(FA1), NoFiles),
      Env(TRUE, TRUE, NoResult, DefaultUrls,
          Net(NetOk(FC), NetStatus, NetStatus, "none"), NoFiles) }

\* Install roots.
Dir(name, json, skillName, version) ==
    [name |-> name, isDirectory |-> TRUE, json |-> json, isObject |-> TRUE,
     skillName |-> skillName, version |-> version]
PlainFile(name) ==
    [name |-> name, isDirectory |-> FALSE, json |-> "missing", isObject |-> FALSE,
     skillName |-> Null, version |-> Null]
Root(entries) == [readable |-> TRUE, entries |-> entries]

Roots ==
    { [readable |-> FALSE, entries |-> <<>>],
      Root(<< Dir(NameA, "ok", <<" ", "A">>, V100), PlainFile(NameB) >>),
      Root(<< Dir(NameB, "ok", NameB, V200), Dir(<<"x">>, "missing", Null, Null) >>) }

\* Scan of every world, computed once.
ScanOf == [env \in HookEnvs, root \in Roots |-> Scan(env, root)]

\* State files found at the first invocation: none, no JSON, a JSON value
\* that is no object, and states persisted earlier.
InitialFiles ==
    { MissingFile, CorruptFile,
      JsonFile([DEFAULT_STATE(NoMatches) EXCEPT !.isObject = FALSE]),
      PersistedFile([DEFAULT_STATE(NoMatches) EXCEPT
                        !.last_hook_scan = Iso(StartTime - 299000),
                        !.known_advisories = << <<"A","0">> >>]),
      PersistedFile([DEFAULT_STATE(NoMatches) EXCEPT !.last_hook_scan = Iso(StartTime + 5000)]) }

\* What the next invocation may compare itself with.
Summary(invocation) ==
    [n |-> invocation.n, step |-> invocation.did.step, feed |-> invocation.did.feed,
     installed |-> invocation.did.installed, file |-> invocation.did.file,
     pushed |-> invocation.did.pushed]

NoInvocation ==
    [n |-> 0, event |-> Event(Null, Null, FALSE),
     at |-> 0, before |-> MissingFile, sharedBefore |-> NoMatches,
     did |-> Quiet("none", MissingFile, NoMatches, NoLoad)]

\* The hook is not running.
HookIdle ==
    /\ stateFile = MissingFile
    /\ sharedNotified = NoMatches
    /\ now = StartTime
    /\ intervalEnv = Null
    /\ last = NoInvocation
    /\ prev = Summary(NoInvocation)
    /\ invocations = 0
    /\ ticks = 0

\* No loader is run on its own.
LoadIdle == load = [phase |-> "idle"]

\* The gate is not run.
GateIdle == gate = [phase |-> "idle"]

\* No persistState or loadState call is followed step by step.
PersistIdle ==
    /\ dir = <<>>
    /\ inodes = <<>>
    /\ calls = <<>>
    /\ reader = [pc |-> "idle"]
    /\ clock = 0
    /\ committed = MissingFile

\* No invocations race in separate processes.
RaceIdle == race = [initial |-> MissingFile, of |-> <<>>]

\* No function is applied on its own.
PureIdle == pure = [fn |-> "none"]

HookInit ==
    /\ LoadIdle
    /\ GateIdle
    /\ PersistIdle
    /\ RaceIdle
    /\ PureIdle
    /\ stateFile \in InitialFiles
    /\ sharedNotified = NoMatches
    /\ now = StartTime
    /\ intervalEnv \in {Null, <<"1">>}
    /\ last = NoInvocation
    /\ prev = Summary(NoInvocation)
    /\ invocations = 0
    /\ ticks = 0

\* One invocation has run: what it did becomes the state.
Ran(event, did) ==
    /\ invocations < MaxInvocations
    /\ invocations' = invocations + 1
    /\ stateFile' = did.file
    /\ sharedNotified' = did.sharedNotified
    /\ prev' = Summary(last)
    /\ last' = [n |-> invocations + 1, event |-> event,
                at |-> now, before |-> stateFile, sharedBefore |-> sharedNotified,
                did |-> did]
    /\ UNCHANGED <<now, intervalEnv, ticks>>
    /\ UNCHANGED notHook

\* The host fires an event and the handler runs to its end.
Invoke(event, env, root) ==
    Ran(event, handler(event, ScanOf[env, root], stateFile, sharedNotified, now, intervalEnv))

Tick(d) ==
    /\ ticks < MaxTicks
    /\ ticks' = ticks + 1
    /\ now' = now + d
    /\ UNCHANGED <<stateFile, sharedNotified, intervalEnv, last, prev, invocations>>
    /\ UNCHANGED notHook

\* The host process restarts: module state starts afresh.
Restart ==
    /\ sharedNotified # NoMatches
    /\ sharedNotified' = NoMatches
    /\ UNCHANGED <<stateFile, now, intervalEnv, last, prev, invocations, ticks>>
    /\ UNCHANGED notHook

HookNext ==
    \/ \E event \in Events, env \in HookEnvs, root \in Roots : Invoke(event, env, root)
    \/ \E d \in Jumps : Tick(d)
    \/ Restart

Init == HookInit
Next == HookNext
Spec == Init /\ [][Next]_vars

(***************************************************************************)
(* The hook in a host whose disk may refuse the write of the state file    *)
(* (no permission, no space): invocations one after the other in one host  *)
(* process, as above.                                                      *)
(***************************************************************************)

\* What mkdir and writeFile of persistState meet.
Disks == {"ok", "EACCES"}

HostEvents ==
    { Event(<<"a","g","e","n","t">>, <<"b","o","o","t","s","t","r","a","p">>, TRUE),
      Event(<<"c","o","m","m","a","n","d">>, <<"n","e","w">>, TRUE),
      Event(<<"c","o","m","m","a","n","d">>, <<"s","t","o","p">>, TRUE) }

HostEnvs ==
    { Env(FALSE, TRUE, PemText(PinnedKey), DefaultUrls, GoodNet(FA1), NoFiles),
      Env(FALSE, TRUE, PemText(PinnedKey), DefaultUrls, DownNet,
          Files(FA1, NoResult, NoResult, "none")) }

HostInvoke(event, env, root, disk) ==
    IF disk = "ok"
    THEN Ran(event, handler(event, ScanOf[env, root], stateFile, sharedNotified, now,
                            intervalEnv))
    ELSE Ran(event, PersistThrows(handler(event, ScanOf[env, root], stateFile,
                                          sharedNotified, now, intervalEnv),
                                  stateFile))

HostNext ==
    \/ \E event \in HostEvents, env \in HostEnvs, root \in Roots, disk \in Disks :
          HostInvoke(event, env, root, disk)
    \/ \E d \in Jumps : Tick(d)
    \/ Restart

SpecHost == HookInit /\ [][HostNext]_vars

(***************************************************************************)
(* The loaders run on their own: the remote loader, the local loader and   *)
(* the orchestrating loadFeed, each once in a world drawn at the start.    *)
(***************************************************************************)

\* What is served for the feed.
FeedAnswers ==
    { NetOk(FA1), NetOk(FNoId), NetOk(FeedText(DocBadAffected, 1)),
      NetOk(FeedText(DocNoVersion, 1)), NetOk(FeedText(DocBlankVersion, 1)),
      NetOk(FeedText(DocNoObject, 1)), NetOk(FeedText(DocNoAdvisories, 1)),
      NetOk(FeedText(DocNoSeverity, 1)), NetOk(FeedText(DocAdvisoryNoObject, 1)),
      NetOk(FeedText(DocAffectedNoString, 1)), NetOk(FeedText(DocEmpty, 1)),
      NetOk(NotJsonText), NetOk(EmptyText),
      NetStatus, NetError, NetTimeout }

\* What is served for the signature of the feed text `body`.
SigAnswers(body) ==
    { NetOk(Base64Sig(PinnedKey, body)), NetOk(JsonSig(PinnedKey, body)),
      NetOk(Base64Sig(OtherKey, body)), NetOk(Base64Sig(PinnedKey, FA2)),
      NetOk(BlankSig), NetOk(EmptyText), NetOk(JsonNoFieldSig), NetOk(BrokenJsonSig),
      NetStatus }

\* What is served for the checksum manifest.
SumsAnswers(body, sig) ==
    { NetOk(ManifestFor(body, sig)), NetOk(ManifestFor(FA2, sig)),
      NetOk(ManifestFor(body, Base64Sig(OtherKey, body))),
      NetOk(ManifestText(ManifestDoc(<< Entry(FEED_JSON, body) >>))),
      NetOk(ManifestText(ManifestDoc(<< Entry(FEED_JSON, body), Entry(FEED_JSON_SIG, sig) >>))),
      NetOk(ManifestText(ManifestDoc(<< Entry(FEED_JSON, body), Entry(FEED_JSON_SIG, sig),
                                        Entry(KEY_PEM, PemText(OtherKey)) >>))),
      NetOk(ManifestText([ManifestDoc(<< Entry(FEED_JSON, body), Entry(FEED_JSON_SIG, sig) >>)
                             EXCEPT !.algorithm = <<"m","d","5">>])),
      NetOk(ManifestText(ManifestDoc(<< Entry(FEED_JSON, body),
                                        [name |-> FEED_JSON_SIG, form |-> "other",
                                         hex |-> Digest(sig)] >>))),
      NetOk(ManifestText(ManifestDoc(<<>>))),
      NetOk(NotJsonManifest), NetOk(EmptyText), NetStatus }

\* The signature answers that verify under the pinned key.
GoodSigAnswers(body) ==
    { NetOk(Base64Sig(PinnedKey, body)), NetOk(JsonSig(PinnedKey, body)) }

\* The networks: every feed answer with a good signature and manifest; the
\* good feed with every signature answer; the good feed with a good
\* signature and every manifest answer, signed by either key or not served.
Nets ==
    { Net(f, NetOk(Base64Sig(PinnedKey, f.body)),
          NetOk(ManifestFor(f.body, Base64Sig(PinnedKey, f.body))), PinnedKey) :
        f \in FeedAnswers }
    \cup
    { Net(NetOk(FA1), s, NetOk(ManifestFor(FA1, s.body)), PinnedKey) : s \in SigAnswers(FA1) }
    \cup
    UNION { { Net(NetOk(FA1), s, m, signer) :
                m \in SumsAnswers(FA1, s.body), signer \in {PinnedKey, OtherKey, "none"} }
            : s \in GoodSigAnswers(FA1) }

\* The local files that hold what the network serves.
FilesOf(net) ==
    [slot \in {"feed", "sig", "sums", "sumsSig"} |->
        IF net[slot].kind = "ok" THEN net[slot].body ELSE NoResult]

\* Variants of a URL: as configured, over http, on hosts inside and outside
\* the allow-list, and not a URL.
UrlChoices(url) ==
    { url, [url EXCEPT !.protocol = "http:"], [url EXCEPT !.hostname = HostLookalike],
      [url EXCEPT !.hostname = HostSub], [url EXCEPT !.hostname = HostUpper], InvalidUrl }
FewUrlChoices(url) ==
    { url, [url EXCEPT !.protocol = "http:"], [url EXCEPT !.hostname = HostOther] }

UrlSets ==
    { [feed |-> f, sig |-> s, sums |-> m, sumsSig |-> ms] :
        f \in UrlChoices(DefaultUrls.feed), s \in UrlChoices(DefaultUrls.sig),
        m \in FewUrlChoices(DefaultUrls.sums), ms \in FewUrlChoices(DefaultUrls.sumsSig) }

LoadWorlds ==
    { Env(allowUnsigned, verifyChecksumManifest, keyFile, DefaultUrls, net, files) :
        <<allowUnsigned, verifyChecksumManifest, keyFile, net, files>> \in
            UNION { { <<a, v, k, n, FilesOf(n)>>, <<a, v, k, n, GoodFiles(FB)>> } :
                      <<a, v, k, n>> \in BOOLEAN \X BOOLEAN
                                          \X {PemText(PinnedKey), NoResult} \X Nets } }
    \cup
    { Env(allowUnsigned, verifyChecksumManifest, PemText(PinnedKey), urls, GoodNet(FA1),
          GoodFiles(FB)) :
        allowUnsigned \in BOOLEAN, verifyChecksumManifest \in BOOLEAN, urls \in UrlSets }

\* options.publicKeyPem of a direct call: String(options.publicKeyPem ?? "").
PemOption(env) == IF env.keyFile.kind = "null" THEN EmptyText ELSE env.keyFile

\* The manifest entries of a direct call: checksumPublicKeyEntry is
\* configured or left out.
LocalEntries(env, keyEntry) == [feed |-> FEED_JSON, sig |-> FEED_JSON_SIG, key |-> keyEntry]

LoadInit ==
    /\ HookIdle
    /\ GateIdle
    /\ PersistIdle
    /\ RaceIdle
    /\ PureIdle
    /\ \E env \in LoadWorlds : load = [phase |-> "ready", env |-> env]

RunRemote ==
    /\ load.phase = "ready"
    /\ load' = [phase |-> "remote", env |-> load.env,
                out |-> loadRemoteFeed(load.env.w, LoaderOptions(load.env, PemOption(load.env)))]
    /\ UNCHANGED notLoad

RunLocal ==
    /\ load.phase = "ready"
    /\ \E keyEntry \in {load.env.keyEntry, <<>>} :
          load' = [phase |-> "local", env |-> load.env,
                   entries |-> LocalEntries(load.env, keyEntry),
                   out |-> loadLocalFeed(load.env.files, LocalEntries(load.env, keyEntry),
                                         LoaderOptions(load.env, PemOption(load.env)))]
    /\ UNCHANGED notLoad

RunLoadFeed ==
    /\ load.phase = "ready"
    /\ load' = [phase |-> "orchestrated", env |-> load.env, out |-> loadFeed(load.env)]
    /\ UNCHANGED notLoad

LoadNext == RunRemote \/ RunLocal \/ RunLoadFeed

SpecLoad == LoadInit /\ [][LoadNext]_vars

(***************************************************************************)
(* The orchestrating loadFeed with its remote fetches step by step: each   *)
(* fetchText call issues its request and waits; the remote answers, or     *)
(* the timer of fetchText fires and aborts the request.  A net answer of   *)
(* kind "timeout" is a remote that never answers.                          *)
(***************************************************************************)

\* feed.mjs line 342: setTimeout(() => controller.abort(), 10000)
FETCH_TIMEOUT_MS == 10000

\* The clock of the timer advances in steps of this many ms.
TimerStep == 5000

SlotSet == {"feed", "sig", "sums", "sumsSig"}

\* A fetchText call that has not settled yet.
Unfetched == [result |-> NoResult, requested |-> TRUE]

\* The four results under the names loadRemoteFeed gives them.
GotOf(bySlot) ==
    [payload |-> bySlot["feed"], signature |-> bySlot["sig"],
     checksums |-> bySlot["sums"], checksumsSignature |-> bySlot["sumsSig"]]

\* The next fetchText call loadRemoteFeed reaches: the first request on its
\* way that has not settled, "none" when it needs no further fetch.
NextSlotOf(touched, fetched) ==
    LET rest == SelectSeq(touched, LAMBDA slot : slot \notin fetched)
    IN IF rest = <<>> THEN "none" ELSE rest[1]

\* Remotes where each of the four artifacts is served or never answered,
\* and one that is down.
SilentNets ==
    { [slot \in SlotSet |-> IF slot \in silent THEN NetTimeout ELSE GoodNet(FA1)[slot]] :
        silent \in SUBSET SlotSet }
    \cup {DownNet}

FetchWorlds ==
    { Env(allowUnsigned, verifyChecksumManifest, keyFile, DefaultUrls, net, files) :
        allowUnsigned \in BOOLEAN, verifyChecksumManifest \in BOOLEAN,
        keyFile \in {PemText(PinnedKey), NoResult},
        net \in SilentNets, files \in {GoodFiles(FB), NoFiles} }

FetchInit ==
    /\ HookIdle
    /\ GateIdle
    /\ PersistIdle
    /\ RaceIdle
    /\ PureIdle
    /\ \E env \in FetchWorlds :
          load = [phase |-> "start", env |-> env, got |-> [slot \in SlotSet |-> Unfetched],
                  fetched |-> {}, pending |-> "none", waited |-> 0, aborted |-> {},
                  out |-> NoLoad]

\* handler.ts line 66: the public key is read; loadFeed throws when it
\* cannot be.
ReadKey ==
    /\ load.phase = "start"
    /\ load' = IF IsThrow(KeyRead(load.env))
               THEN [load EXCEPT !.phase = "done",
                                 !.out = LoadWithKey(load.env, KeyRead(load.env))]
               ELSE [load EXCEPT !.phase = "remote"]
    /\ UNCHANGED notLoad

\* Lines 340-350: fetchText arms its timer and issues the request.
Request(slot) ==
    /\ load.phase = "remote"
    /\ load.pending = "none"
    /\ slot # "none"
    /\ load' = [load EXCEPT !.pending = slot, !.waited = 0]
    /\ UNCHANGED notLoad

\* Lines 345-351: the remote answers and fetchText settles.
Respond ==
    /\ load.phase = "remote"
    /\ load.pending # "none"
    /\ load.env.w.net[load.pending].kind # "timeout"
    /\ load' = [load EXCEPT
                   !.got[load.pending] = fetchText(load.env.w.urls[load.pending],
                                                   load.env.w.net[load.pending]),
                   !.fetched = @ \cup {load.pending},
                   !.pending = "none"]
    /\ UNCHANGED notLoad

\* Time passes while a request is pending.
TimerTick ==
    /\ load.phase = "remote"
    /\ load.pending # "none"
    /\ load.waited < FETCH_TIMEOUT_MS
    /\ load' = [load EXCEPT !.waited = @ + TimerStep]
    /\ UNCHANGED notLoad

\* A fetchText without its timer: a pending request is never aborted.
AbortMutNoTimer ==
    /\ load.phase = "never"
    /\ UNCHANGED vars

\* Line 342: the timer fires, the request is aborted, fetch rejects and the
\* catch of lines 352-358 makes it null.
Abort ==
    /\ load.phase = "remote"
    /\ load.pending # "none"
    /\ load.waited >= FETCH_TIMEOUT_MS
    /\ load' = [load EXCEPT
                   !.got[load.pending] = fetchText(load.env.w.urls[load.pending], NetTimeout),
                   !.fetched = @ \cup {load.pending},
                   !.aborted = @ \cup {load.pending},
                   !.pending = "none"]
    /\ UNCHANGED notLoad

\* loadRemoteFeed returns and loadFeed goes on: lines 77-88.
Finished(slot, out) ==
    /\ load.phase = "remote"
    /\ load.pending = "none"
    /\ slot = "none"
    /\ load' = [load EXCEPT !.phase = "done", !.out = out]
    /\ UNCHANGED notLoad

\* loadRemoteFeed on what the fetches have yielded so far.
RemoteSoFar ==
    RemoteRun(GotOf(load.got), load.env.w, LoaderOptions(load.env, KeyRead(load.env)))

FetchNext ==
    \/ ReadKey
    \/ Request(NextSlotOf(RemoteSoFar.touched, load.fetched))
    \/ Respond
    \/ TimerTick
    \/ Abort
    \/ Finished(NextSlotOf(RemoteSoFar.touched, load.fetched),
                RemoteElseLocal(
                    RemoteSoFar,
                    loadLocalFeed(load.env.files,
                                  [feed |-> FEED_JSON, sig |-> FEED_JSON_SIG,
                                   key |-> load.env.keyEntry],
                                  LoaderOptions(load.env, KeyRead(load.env)))))

\* The event loop runs every continuation and every timer that is due.
SpecFetch == FetchInit /\ [][FetchNext]_vars /\ WF_vars(FetchNext)

(***************************************************************************)
(* The guard gate run once: a command line, a feed world and an installer  *)
(* drawn at the start.                                                     *)
(***************************************************************************)

GateArgvs ==
    { <<ARG_SKILL, NameA>>,
      <<ARG_SKILL, NameA, ARG_CONFIRM>>,
      <<ARG_SKILL, NameA, ARG_DRY_RUN>>,
      <<ARG_DRY_RUN, ARG_SKILL, NameA, ARG_CONFIRM>>,
      <<ARG_SKILL, NameA, ARG_VERSION, V100>>,
      <<ARG_SKILL, NameA, ARG_VERSION, V100, ARG_DRY_RUN>>,
      <<ARG_SKILL, NameA, ARG_VERSION, V100, ARG_CONFIRM>>,
      <<ARG_SKILL, NameA, ARG_VERSION, V200>>,
      <<ARG_SKILL, NameA, ARG_VERSION, <<"0",".","9",".","0">>, ARG_DRY_RUN>>,
      <<ARG_SKILL, NameA, ARG_VERSION, <<"0",".","9",".","0">> >>,
      <<ARG_VERSION, V200, ARG_SKILL, <<" ","b"," ">> >>,
      <<ARG_SKILL, <<"x">> >>,
      <<ARG_SKILL, <<"x">>, ARG_DRY_RUN>>,
      <<ARG_SKILL, NameA, ARG_VERSION, ARG_DRY_RUN>>,
      <<ARG_SKILL, ARG_DRY_RUN>>,
      <<ARG_SKILL, <<"A">> >>,
      <<ARG_SKILL>>,
      <<ARG_DRY_RUN>>,
      <<ARG_SKILL, NameA, <<"-","-","f","o","r","c","e">> >>,
      <<ARG_SKILL, NameA, ARG_HELP>>,
      <<ARG_H>> }

\* Feed worlds of the gate: a verified remote feed, a verified local one
\* behind a remote that is down or that serves a feed signed with another
\* key, no feed at all, no public key, and feeds without signatures with
\* and without the unsigned bypass.
GateEnvs ==
    { Env(FALSE, TRUE, PemText(PinnedKey), DefaultUrls, GoodNet(FB), NoFiles),
      Env(FALSE, TRUE, PemText(PinnedKey), DefaultUrls, DownNet, GoodFiles(FA1)),
      Env(FALSE, TRUE, PemText(PinnedKey), DefaultUrls,
          Net(NetOk(FB), NetOk(Base64Sig(OtherKey, FB)), NetStatus, "none"), GoodFiles(FC)),
      Env(FALSE, TRUE, PemText(PinnedKey), DefaultUrls, DownNet, NoFiles),
      Env(FALSE, TRUE, NoResult, DefaultUrls, GoodNet(FB), GoodFiles(FB)),
      Env(FALSE, TRUE, PemText(PinnedKey), DefaultUrls,
          Net(NetOk(FC), NetStatus, NetStatus, "none"), Files(FC, NoResult, NoResult, "none")),
      Env(TRUE, TRUE, NoResult, DefaultUrls,
          Net(NetOk(FC), NetStatus, NetStatus, "none"), NoFiles),
      Env(TRUE, TRUE, NoResult, DefaultUrls, DownNet, Files(FB, NoResult, NoResult, "none")) }

Installers == { InstallerStatus(Num(0)), InstallerStatus(Num(3)), InstallerStatus(Null), InstallerError }

GateInit ==
    /\ HookIdle
    /\ LoadIdle
    /\ PersistIdle
    /\ RaceIdle
    /\ PureIdle
    /\ \E argv \in GateArgvs, env \in GateEnvs, installer \in Installers :
          gate = [phase |-> "start", argv |-> argv, env |-> env, installer |-> installer]

\* The process runs from its start to its exit.
RunGate ==
    /\ gate.phase = "start"
    /\ gate' = [phase |-> "exited", argv |-> gate.argv, env |-> gate.env,
                installer |-> gate.installer,
                run |-> main(gate.argv, gate.env, gate.installer)]
    /\ UNCHANGED notGate

GateNext == RunGate

SpecGate == GateInit /\ [][GateNext]_vars

(***************************************************************************)
(* lib/state.ts on the file system: persistState and loadState step by     *)
(* step, as concurrent handler invocations of one process and as separate  *)
(* processes run them.                                                     *)
(*                                                                         *)
(* A file's content is the sequence of the chunks written to it; the text  *)
(* persistState writes for a state is Chunks chunks long.  Every open file *)
(* has its own offset.  writeFile opens with O_CREAT | O_TRUNC, writes the *)
(* chunks and closes; rename replaces the target's directory entry in one  *)
(* step; readFile opens, reads to the end of the file and closes.          *)
(***************************************************************************)

MaxCalls == 2
MaxClock == 1
Chunks == 2

Pids == {1, 2}
Calls == 1..MaxCalls

\* stateFile
STATE_PATH == <<"state", 0, 0>>

\* A temp file name that leaves the process id out.
tmpFileMutNoPid(pid, dateNow) == <<"tmp", 1, dateNow>>

\* Line 55: `${stateFile}.tmp-${process.pid}-${Date.now()}`
tmpFile(pid, dateNow) == <<"tmp", pid, dateNow>>

\* The entries of the install root (each a directory with its skill.json,
\* or a plain file); the roots of the model have two.
InstallPath(i) == <<"installRoot", i, 0>>
InstallPaths == { InstallPath(i) : i \in 1..2 }

Paths ==
    {STATE_PATH} \cup { tmpFile(pid, t) : pid \in Pids, t \in 0..MaxClock } \cup InstallPaths

\* `${JSON.stringify(normalized, null, 2)}\n`, in chunks.
Chunk(file, part) == [of |-> file, part |-> part]
Hole == Chunk(CorruptFile, 0)
Serialized(file) == [part \in 1..Chunks |-> Chunk(file, part)]

\* The content is the whole text of one state.
Complete(content) ==
    /\ Len(content) = Chunks
    /\ \A part \in 1..Chunks : content[part] = Chunk(content[1].of, part)

\* JSON.parse of what readFile returned: a prefix of a text, an empty file or
\* chunks of several texts do not parse.
Parsed(content) == IF Complete(content) THEN content[1].of ELSE CorruptFile

\* write(fd, chunk) at the offset of fd
WriteAt(content, offset, chunk) ==
    [i \in 1..(IF offset > Len(content) THEN offset ELSE Len(content)) |->
        IF i = offset THEN chunk
        ELSE IF i <= Len(content) THEN content[i] ELSE Hole]

\* The states handed to persistState, one per call.
StateOf(c) ==
    [DEFAULT_STATE(NoMatches) EXCEPT
        !.last_hook_scan = Iso(StartTime + c),
        !.known_advisories = << <<"A","1">>, <<" ">>, <<"A","1">> >>]

\* The state file before the first call.
InitialState == [DEFAULT_STATE(NoMatches) EXCEPT !.last_hook_scan = Iso(StartTime)]

NoCall == [pc |-> "idle", pid |-> 0, file |-> MissingFile, tmp |-> STATE_PATH,
           fd |-> 0, offset |-> 0, at |-> "idle"]

\* A call is between its first and its last step.
InFlight(call) == call.pc \in {"mkdir", "named", "writing", "written", "renamed"}

PersistInit ==
    /\ HookIdle
    /\ LoadIdle
    /\ GateIdle
    /\ RaceIdle
    /\ PureIdle
    /\ calls = [c \in Calls |-> NoCall]
    /\ reader = [pc |-> "idle"]
    /\ clock = 0
    /\ \/ /\ dir = [path \in Paths |-> IF path = STATE_PATH THEN 1 ELSE 0]
          /\ inodes = << Serialized(PersistedFile(InitialState)) >>
          /\ committed = PersistedFile(InitialState)
       \/ /\ dir = [path \in Paths |-> 0]
          /\ inodes = << <<>> >>
          /\ committed = MissingFile

\* Lines 53-54: persistState is called by process pid; it normalizes the state
\* and makes sure of the directory.
Begin(c, pid) ==
    /\ calls[c].pc = "idle"
    /\ \A b \in Calls : b < c => calls[b].pc # "idle"
    /\ \A b \in Calls : calls[b].pid = pid => calls[b].pc # "killed"
    /\ calls' = [calls EXCEPT ![c] = [NoCall EXCEPT !.pc = "mkdir", !.pid = pid,
                                                   !.file = PersistedFile(StateOf(c))]]
    /\ UNCHANGED <<dir, inodes, reader, clock, committed>>
    /\ UNCHANGED notPersist

\* Line 55: the name of the temp file.
NameTmp(c) ==
    /\ calls[c].pc = "mkdir"
    /\ calls' = [calls EXCEPT ![c].pc = "named", ![c].tmp = tmpFile(calls[c].pid, clock)]
    /\ UNCHANGED <<dir, inodes, reader, clock, committed>>
    /\ UNCHANGED notPersist

\* Line 56: writeFile opens the temp file, creating it or cutting it to length 0.
OpenTmp(c) ==
    /\ calls[c].pc = "named"
    /\ IF dir[calls[c].tmp] = 0
       THEN /\ inodes' = Append(inodes, <<>>)
            /\ dir' = [dir EXCEPT ![calls[c].tmp] = Len(inodes) + 1]
            /\ calls' = [calls EXCEPT ![c].pc = "writing", ![c].fd = Len(inodes) + 1,
                                      ![c].offset = 0]
       ELSE /\ inodes' = [inodes EXCEPT ![dir[calls[c].tmp]] = <<>>]
            /\ dir' = dir
            /\ calls' = [calls EXCEPT ![c].pc = "writing", ![c].fd = dir[calls[c].tmp],
                                      ![c].offset = 0]
    /\ UNCHANGED <<reader, clock, committed>>
    /\ UNCHANGED notPersist

\* Line 56: writeFile writes the next chunk, and closes after the last one.
WriteChunk(c) ==
    /\ calls[c].pc = "writing"
    /\ inodes' = [inodes EXCEPT ![calls[c].fd] =
                      WriteAt(@, calls[c].offset + 1, Chunk(calls[c].file, calls[c].offset + 1))]
    /\ calls' = [calls EXCEPT ![c].offset = @ + 1,
                              ![c].pc = IF calls[c].offset + 1 = Chunks THEN "written" ELSE @]
    /\ UNCHANGED <<dir, reader, clock, committed>>
    /\ UNCHANGED notPersist

\* Line 60: rename(tmpFile, stateFile); ENOENT when the temp file is gone.
Rename(c) ==
    /\ calls[c].pc = "written"
    /\ IF dir[calls[c].tmp] = 0
       THEN /\ calls' = [calls EXCEPT ![c].pc = "failed"]
            /\ UNCHANGED <<dir, committed>>
       ELSE /\ dir' = [dir EXCEPT ![STATE_PATH] = dir[calls[c].tmp], ![calls[c].tmp] = 0]
            /\ calls' = [calls EXCEPT ![c].pc = "renamed"]
            /\ committed' = IF inodes[dir[calls[c].tmp]] = Serialized(calls[c].file)
                            THEN calls[c].file ELSE committed
    /\ UNCHANGED <<inodes, reader, clock>>
    /\ UNCHANGED notPersist

\* Lines 61-73: chmod; ENOTSUP and EPERM are warned about, other errors thrown.
Chmod(c, code) ==
    /\ calls[c].pc = "renamed"
    /\ calls' = [calls EXCEPT ![c].pc = IF code \in {"ok", "ENOTSUP", "EPERM"}
                                        THEN "done" ELSE "failed"]
    /\ UNCHANGED <<dir, inodes, reader, clock, committed>>
    /\ UNCHANGED notPersist

\* A millisecond passes.
ClockTick ==
    /\ clock < MaxClock
    /\ clock' = clock + 1
    /\ UNCHANGED <<dir, inodes, calls, reader, committed>>
    /\ UNCHANGED notPersist

\* Process pid is killed: its calls in flight stop where they are.
Kill(pid) ==
    /\ \E c \in Calls : calls[c].pid = pid /\ InFlight(calls[c])
    /\ calls' = [c \in Calls |->
                    IF calls[c].pid = pid /\ InFlight(calls[c])
                    THEN [calls[c] EXCEPT !.pc = "killed", !.at = calls[c].pc]
                    ELSE calls[c]]
    /\ UNCHANGED <<dir, inodes, reader, clock, committed>>
    /\ UNCHANGED notPersist

\* Line 45: readFile opens the state file; ENOENT when there is none.
ReadOpen ==
    /\ reader.pc = "idle"
    /\ reader' = IF dir[STATE_PATH] = 0
                 THEN [pc |-> "done", fd |-> 0, raw |-> <<>>, file |-> MissingFile,
                       state |-> loadState(MissingFile, NoMatches).state]
                 ELSE [pc |-> "reading", fd |-> dir[STATE_PATH], raw |-> <<>>,
                       file |-> MissingFile, state |-> DEFAULT_STATE(NoMatches)]
    /\ UNCHANGED <<dir, inodes, calls, clock, committed>>
    /\ UNCHANGED notPersist

\* Lines 45-49: readFile reads the next chunk; at the end of the file
\* loadState parses and normalizes what was read.
ReadChunk ==
    /\ reader.pc = "reading"
    /\ reader' = IF Len(reader.raw) < Len(inodes[reader.fd])
                 THEN [reader EXCEPT !.raw = Append(@, inodes[reader.fd][Len(reader.raw) + 1])]
                 ELSE [reader EXCEPT !.pc = "done", !.file = Parsed(reader.raw),
                                     !.state = loadState(Parsed(reader.raw), NoMatches).state]
    /\ UNCHANGED <<dir, inodes, calls, clock, committed>>
    /\ UNCHANGED notPersist

PersistNext ==
    \/ \E c \in Calls, pid \in Pids : Begin(c, pid)
    \/ \E c \in Calls : NameTmp(c)
    \/ \E c \in Calls : OpenTmp(c)
    \/ \E c \in Calls : WriteChunk(c)
    \/ \E c \in Calls : Rename(c)
    \/ \E c \in Calls, code \in {"ok", "EPERM", "EIO"} : Chmod(c, code)
    \/ ClockTick
    \/ \E pid \in Pids : Kill(pid)
    \/ ReadOpen
    \/ ReadChunk

SpecPersist == PersistInit /\ [][PersistNext]_vars

\* The file at the path of the state file, as loadState would parse it now.
StateFileNow ==
    IF dir[STATE_PATH] = 0 THEN MissingFile ELSE Parsed(inodes[dir[STATE_PATH]])

(***************************************************************************)
(* Two hook invocations in separate host processes on one state file, no   *)
(* lock between them. Each process is fresh, its pid is its own, and its   *)
(* invocation reads the state file at line 135, decides, and at line 177   *)
(* or 195 calls persistState, which the file system sees step by step.     *)
(***************************************************************************)

RaceEvents ==
    { Event(<<"a","g","e","n","t">>, <<"b","o","o","t","s","t","r","a","p">>, TRUE),
      Event(<<"c","o","m","m","a","n","d">>, <<"n","e","w">>, TRUE) }

RaceEnvs ==
    { Env(FALSE, TRUE, PemText(PinnedKey), DefaultUrls, GoodNet(FA1), NoFiles),
      Env(FALSE, TRUE, PemText(PinnedKey), DefaultUrls, DownNet, GoodFiles(FB)) }

RaceRoots ==
    { Root(<< Dir(NameA, "ok", <<" ", "A">>, V100), PlainFile(NameB) >>),
      Root(<< Dir(NameB, "ok", NameB, V200), Dir(<<"x">>, "missing", Null, Null) >>) }

\* State files the race starts on: none, and one persisted a long time ago.
RaceInitialFiles ==
    { MissingFile,
      PersistedFile([DEFAULT_STATE(NoMatches) EXCEPT
                        !.last_hook_scan = Iso(StartTime - 299999),
                        !.known_advisories = << <<"A","0">> >>]) }

NoRun == [pc |-> "idle", event |-> Event(Null, Null, FALSE), before |-> MissingFile,
          matches |-> <<>>, did |-> Quiet("none", MissingFile, NoMatches, NoLoad)]

\* The install root as readdir and readFile find it on the file system.
InstallRootNow ==
    LET present == SelectSeq(<<1, 2>>, LAMBDA i : dir[InstallPath(i)] # 0)
    IN [readable |-> TRUE,
        entries |-> [n \in 1..Len(present) |-> inodes[dir[InstallPath(present[n])]][1]]]

\* Lines 140-174 on the install root as it is now.
ScanNow(env) ==
    IF InstallRootNow \in Roots THEN ScanOf[env, InstallRootNow] ELSE Scan(env, InstallRootNow)

RaceInit ==
    /\ HookIdle
    /\ LoadIdle
    /\ GateIdle
    /\ PureIdle
    /\ calls = [c \in Calls |-> NoCall]
    /\ reader = [pc |-> "idle"]
    /\ clock = 0
    /\ \E file \in RaceInitialFiles, root \in RaceRoots :
          /\ race = [initial |-> file, root |-> root, of |-> [pid \in Pids |-> NoRun]]
          /\ committed = file
          /\ dir = [path \in Paths |->
                       IF path = STATE_PATH THEN (IF file = MissingFile THEN 0 ELSE 1)
                       ELSE IF path \in InstallPaths THEN path[2] + 1
                       ELSE 0]
          /\ inodes = << IF file = MissingFile THEN <<>> ELSE Serialized(file),
                         <<root.entries[1]>>, <<root.entries[2]>> >>

\* An invocation that removes the first entry of the install root when it
\* alerts.
RaceRanMutRemove(pid, event, matches, did) ==
    /\ race.of[pid].pc = "idle"
    /\ race' = [race EXCEPT !.of[pid] =
                   [pc |-> IF did.writes = 0 THEN "returned" ELSE "persisting",
                    event |-> event, before |-> StateFileNow,
                    matches |-> matches, did |-> did]]
    /\ calls' = IF did.writes = 0 THEN calls
                ELSE [calls EXCEPT ![pid] = [NoCall EXCEPT !.pc = "mkdir", !.pid = pid,
                                                          !.file = did.file]]
    /\ dir' = IF did.pushed THEN [dir EXCEPT ![InstallPath(1)] = 0] ELSE dir
    /\ UNCHANGED <<inodes, reader, clock, committed>>
    /\ UNCHANGED notRace

\* The invocation of process pid went from line 92 to its return or to its
\* persistState call: `did` is what the handler does on the file it read.
RaceRan(pid, event, matches, did) ==
    /\ race.of[pid].pc = "idle"
    /\ race' = [race EXCEPT !.of[pid] =
                   [pc |-> IF did.writes = 0 THEN "returned" ELSE "persisting",
                    event |-> event, before |-> StateFileNow,
                    matches |-> matches, did |-> did]]
    /\ calls' = IF did.writes = 0 THEN calls
                ELSE [calls EXCEPT ![pid] = [NoCall EXCEPT !.pc = "mkdir", !.pid = pid,
                                                          !.file = did.file]]
    /\ UNCHANGED <<dir, inodes, reader, clock, committed>>
    /\ UNCHANGED notRace

\* Process pid is handed an event: its module state is fresh, its clock is
\* the clock of the machine.
RaceInvoke(pid, event, scan) ==
    RaceRan(pid, event,
            [i \in 1..Len(scan.matches) |-> matchKey(scan.matches[i])],
            handler(event, scan, StateFileNow, NoMatches, StartTime + clock, Null))

\* A step of persistState in one of the processes.
RacePersist(pid) ==
    /\ race.of[pid].pc = "persisting"
    /\ \/ NameTmp(pid)
       \/ OpenTmp(pid)
       \/ WriteChunk(pid)
       \/ Rename(pid)
       \/ \E code \in {"ok", "EPERM", "EIO"} : Chmod(pid, code)

RaceNext ==
    \/ \E pid \in Pids, event \in RaceEvents, env \in RaceEnvs :
          RaceInvoke(pid, event, ScanNow(env))
    \/ \E pid \in Pids : RacePersist(pid)
    \/ ClockTick

SpecRace == RaceInit /\ [][RaceNext]_vars

(***************************************************************************)
(* Functions applied on their own, each once, on arguments drawn at the    *)
(* start.                                                                  *)
(***************************************************************************)

\* Payload texts, signature texts and key texts.
PurePayloads == {FA1, FA2, FB, NotJsonText, EmptyText}
PureSignatures ==
    { SigText(form, Sign(k, payload)) :
        form \in {"base64", "json"}, k \in {PinnedKey, OtherKey}, payload \in PurePayloads }
    \cup {BlankSig, BrokenJsonSig, JsonNoFieldSig, EmptyText, NoResult}
PureKeys == {PemText(PinnedKey), PemText(OtherKey), PemText("none"), EmptyText, NoResult}

\* Parsed manifests of one or two entries, and the entries a caller requires:
\* up to three, one of them without a name.
PureDigests == { Entry(name, text) : name \in {FEED_JSON, FEED_JSON_SIG}, text \in {FA1, FA2} }
PureManifests ==
    { parseChecksumsManifest(ManifestText(ManifestDoc(files))) :
        files \in { <<a>> : a \in PureDigests }
                  \cup { <<a, b>> : <<a, b>> \in { x \in PureDigests \X PureDigests :
                                                     x[1].name # x[2].name } } }
PureRequired ==
    { [name |-> name, content |-> content] :
        name \in {FEED_JSON, FEED_JSON_SIG, <<>>}, content \in {FA1, FA2} }
PureExpected ==
    { <<>> } \cup { <<a>> : a \in PureRequired }
    \cup { <<x[1], x[2]>> : x \in { y \in PureRequired \X PureRequired : y[1].name # y[2].name } }
    \cup { <<x[1], x[2], x[3]>> :
             x \in { y \in PureRequired \X PureRequired \X PureRequired :
                       /\ y[1].name # y[2].name
                       /\ y[1].name # y[3].name
                       /\ y[2].name # y[3].name } }

\* Feeds, requested skill names and versions ("" when --version is not given).
PureFeeds == {DocA, DocB, DocC, DocEmpty}
PureSkills == {NameA, NameB, <<"x">>, <<" ", "A", " ">>}
PureVersions == {<<>>, V100, V200, <<"1",".","1",".","0">>}

\* Feeds and lists of installed skills for findMatches of lib/matching.ts:
\* an advisory with several specifiers for one skill (one of them twice,
\* one in another letter case), a feed that lists an advisory twice, and
\* up to two installed skills.
AdvMulti ==
    Advisory(<<"A","7">>, <<"h","i","g","h">>, Null,
             << SpecA100, SpecAUpper, SpecA100, <<"a"," ","@","*">>, SpecBGe2, <<" ">>,
                <<"x","@">> >>)
MatchFeeds ==
    { DocB, DocC, DocEmpty, FeedDoc(<<AdvMulti, Adv3, Adv4>>, Null),
      FeedDoc(<<Adv1, Adv1>>, Null) }
InstalledSkill(name, dirName, version) ==
    [name |-> name, dirName |-> dirName, version |-> version]
PureInstalled ==
    { InstalledSkill(NameA, NameA, V100), InstalledSkill(<<"A">>, <<"d">>, V200),
      InstalledSkill(NameB, NameB, V200), InstalledSkill(NameA, <<"e">>, Unknown),
      InstalledSkill(<<"x">>, <<"x">>, V100) }
PureInstalledLists ==
    { <<>> } \cup { <<a>> : a \in PureInstalled }
    \cup { <<a, b>> : <<a, b>> \in PureInstalled \X PureInstalled }

\* Installed versions and range targets for versionMatches of
\* lib/version.mjs: with and without a leading "v", with fewer than three
\* components, with a pre-release suffix, with major 0, and texts that
\* parseSemver rejects.
RangeVersions ==
    { <<"1",".","2",".","3">>, V100, V200, <<"v","1",".","3",".","0">>, <<"1",".","2">>,
      <<"1",".","2",".","3","-","r","c">>, <<"0",".","2",".","5">>, <<"0",".","3",".","0">>,
      <<"0",".","2",".","0">>, Unknown, <<"1",".","x">>,
      Null, <<>>, <<"U","N","K","N","O","W","N">>, <<" ","U","n","k","n","o","w","n">>,
      <<"1",".","2",".","3","r","c">> }
RangeTargets ==
    { V100, <<"1",".","2",".","0">>, <<"1",".","3",".","0">>, <<"v","1",".","2",".","4">>,
      <<"2">>, <<"0",".","2",".","0">>, <<"0",".","2",".","1">>,
      <<"1",".","0",".","0","-","*">>, <<"x">>,
      <<"*">>, <<"a","n","y">>, <<"A","N","Y">>, <<" ","A","n","y">>, <<"1",".","*">>,
      Unknown, <<"U","N","K","N","O","W","N">>, <<"1",".","2",".","3","r","c">>,
      <<"1",".","2",".","3">> }
\* No operator (an exact version, a glob, "*" or "any"), the comparators,
\* caret and tilde.
RangeOperators ==
    { <<>>, <<"^">>, <<"~">>, <<">","=">>, <<"<","=">>, <<">">>, <<"<">>, <<"=">> }

\* Matches for matchKey of lib/matching.ts: advisory ids, skill names and
\* installed versions, some of which hold the separators of the key.
KeyIds == { <<"A">>, <<"A",":",":","b">> }
KeyNames == { <<"b">>, <<"B"," ">>, <<"b","@","1">>, <<"c">> }
KeyVersions == { <<"1">>, <<"2">>, <<"1","@","2">>, Unknown }
KeyMatches ==
    { [advisory |-> Advisory(id, <<"h","i","g","h">>, Null, << <<"*">> >>),
       skill |-> InstalledSkill(name, <<"d">>, version),
       matchedAffected |-> << <<"*">> >>] :
        id \in KeyIds, name \in KeyNames, version \in KeyVersions }

\* Matches for buildAlertMessage of lib/matching.ts: advisories that are
\* malicious by their type or by a word of their text, that recommend
\* removal, and that do neither ("removed" and "malicious_skill" in a title
\* are no whole words of the patterns).
AdvPlain ==
    Advisory(<<"P","1">>, <<"h","i","g","h">>, Null, << <<"*">> >>)
    @@ [title |-> <<"B","u","g"," ","i","n"," ","p","a","r","s","e","r">>,
        description |-> Null,
        action |-> <<"U","p","d","a","t","e">>]
AdvMalType ==
    Advisory(<<"P","2">>, <<"h","i","g","h">>, <<"M","a","l","i","c","i","o","u","s","_","S","k","i","l","l">>, << <<"*">> >>)
    @@ [title |-> Null,
        description |-> Null,
        action |-> Null]
AdvBackdoor ==
    Advisory(<<"P","3">>, <<"h","i","g","h">>, Null, << <<"*">> >>)
    @@ [title |-> <<"B","a","c","k","d","o","o","r"," ","f","o","u","n","d">>,
        description |-> Null,
        action |-> Null]
AdvRemoved ==
    Advisory(<<"P","4">>, <<"h","i","g","h">>, Null, << <<"*">> >>)
    @@ [title |-> Null,
        description |-> <<"w","a","s"," ","r","e","m","o","v","e","d">>,
        action |-> Null]
AdvUninstall ==
    Advisory(<<"P","5">>, <<"h","i","g","h">>, Null, << <<"*">> >>)
    @@ [title |-> Null,
        description |-> Null,
        action |-> <<"U","n","i","n","s","t","a","l","l"," ","i","t",".">>]
AdvTypeInTitle ==
    Advisory(<<"P","6">>, <<"h","i","g","h">>, Null, << <<"*">> >>)
    @@ [title |-> <<"m","a","l","i","c","i","o","u","s","_","s","k","i","l","l">>,
        description |-> Null,
        action |-> Null]
AdvDoNotUse ==
    Advisory(<<"P","7">>, <<"h","i","g","h">>, <<"o","t","h","e","r">>, << <<"*">> >>)
    @@ [title |-> Null,
        description |-> <<"D","o"," ","n","o","t"," ","u","s","e">>,
        action |-> Null]
AlertAdvisories ==
    { AdvPlain, AdvMalType, AdvBackdoor, AdvRemoved, AdvUninstall, AdvTypeInTitle, AdvDoNotUse }
AlertSkills ==
    { InstalledSkill(NameA, <<"d","a">>, V100), InstalledSkill(NameB, NameB, Unknown) }
AlertMatch(advisory, skill) ==
    [advisory |-> advisory, skill |-> skill, matchedAffected |-> << <<"*">> >>]
AlertMatches == { AlertMatch(a, k) : a \in AlertAdvisories, k \in AlertSkills }
\* More matches than an alert lists, the last of them alone unsafe.
ManyMatches(ninth) ==
    [i \in 1..(MAX_LISTED + 1) |->
        IF i <= MAX_LISTED THEN AlertMatch(AdvPlain, InstalledSkill(NameA, <<"d","a">>, V100))
        ELSE AlertMatch(ninth, InstalledSkill(NameB, NameB, V200))]
AlertMatchLists ==
    { <<m>> : m \in AlertMatches }
    \cup { <<m, n>> : <<m, n>> \in AlertMatches \X AlertMatches }
    \cup { ManyMatches(AdvBackdoor), ManyMatches(AdvPlain) }
AlertRoot == <<"/","r">>

\* Manifests for parseChecksumsManifest: each of schema_version, version
\* and generated_at absent (or no string), empty, blank or a text of its own.
SchemaFields(text) == { Null, <<>>, <<" ">>, text }
SchemaManifests ==
    { ManifestText([ManifestDoc(<< Entry(FEED_JSON, FA1) >>) EXCEPT
                       !.schema_version = a, !.version = b, !.generated_at = c]) :
        <<a, b, c>> \in SchemaFields(<<"1",".","1">>) \X SchemaFields(<<"0",".","0",".","1">>)
                          \X SchemaFields(<<"2","0","2","6">>) }

PureInput(fn, args) == [fn |-> fn, phase |-> "input", args |-> args, out |-> NoResult]

PureInit ==
    /\ HookIdle
    /\ LoadIdle
    /\ GateIdle
    /\ PersistIdle
    /\ RaceIdle
    /\ \/ \E payloadRaw \in PurePayloads, signatureRaw \in PureSignatures,
             publicKeyPem \in PureKeys :
             pure = PureInput("verifySignedPayload", <<payloadRaw, signatureRaw, publicKeyPem>>)
       \/ \E manifest \in PureManifests, expectedEntries \in PureExpected :
             pure = PureInput("verifyChecksums", <<manifest, expectedEntries>>)
       \/ \E feed \in PureFeeds, skillName \in PureSkills, version \in PureVersions :
             pure = PureInput("findMatches", <<feed, skillName, version>>)
       \/ \E feed \in MatchFeeds, installedSkills \in PureInstalledLists :
             pure = PureInput("matching.findMatches", <<feed, installedSkills>>)
       \/ \E matches \in AlertMatchLists :
             pure = PureInput("buildAlertMessage", <<matches, AlertRoot>>)
       \/ \E manifestRaw \in SchemaManifests :
             pure = PureInput("parseChecksumsManifest", <<manifestRaw>>)
       \/ \E left \in KeyMatches, right \in KeyMatches :
             pure = PureInput("matchKey", <<left, right>>)
       \/ \E version \in RangeVersions, operator \in RangeOperators, target \in RangeTargets :
             pure = PureInput("versionMatches", <<version, operator, target>>)

Applied(fn, out) ==
    /\ pure.fn = fn
    /\ pure.phase = "input"
    /\ pure' = [pure EXCEPT !.phase = "done", !.out = out]
    /\ UNCHANGED notPure

ApplyVerifySignedPayload ==
    /\ pure.fn = "verifySignedPayload"
    /\ Applied("verifySignedPayload",
               verifySignedPayload(pure.args[1], pure.args[2], pure.args[3]))

ApplyVerifyChecksums ==
    /\ pure.fn = "verifyChecksums"
    /\ Applied("verifyChecksums", verifyChecksums(pure.args[1], pure.args[2]))

ApplyFindMatches ==
    /\ pure.fn = "findMatches"
    /\ Applied("findMatches", gateFindMatches(pure.args[1], pure.args[2], pure.args[3]))

ApplyMatchingFindMatches ==
    /\ pure.fn = "matching.findMatches"
    /\ Applied("matching.findMatches", findMatches(pure.args[1], pure.args[2]))

\* versionMatches(A, T), versionMatches(A, "^T"), versionMatches(A, ">=T"), ...
ApplyVersionMatches ==
    /\ pure.fn = "versionMatches"
    /\ Applied("versionMatches", versionMatches(pure.args[1], pure.args[2] \o pure.args[3]))

\* The dedup keys of two matches.
ApplyMatchKey ==
    /\ pure.fn = "matchKey"
    /\ Applied("matchKey", <<matchKey(pure.args[1]), matchKey(pure.args[2])>>)

ApplyParseChecksumsManifest ==
    /\ pure.fn = "parseChecksumsManifest"
    /\ Applied("parseChecksumsManifest", parseChecksumsManifest(pure.args[1]))

ApplyBuildAlertMessage ==
    /\ pure.fn = "buildAlertMessage"
    /\ Applied("buildAlertMessage", buildAlertMessage(pure.args[1], pure.args[2]))

PureNext ==
    \/ ApplyMatchKey
    \/ ApplyBuildAlertMessage
    \/ ApplyParseChecksumsManifest
    \/ ApplyVerifySignedPayload
    \/ ApplyVerifyChecksums
    \/ ApplyFindMatches
    \/ ApplyMatchingFindMatches
    \/ ApplyVersionMatches

SpecPure == PureInit /\ [][PureNext]_vars

(***************************************************************************)
(* Properties of the hook.                                                 *)
(***************************************************************************)

\* The latest two invocations both scanned, one right after the other, the
\* same feed and the same installed skills.
TwoScansOfTheSame ==
    /\ last.n > 1
    /\ prev.n = last.n - 1
    /\ prev.step = "scanned"
    /\ last.did.step = "scanned"
    /\ prev.feed = last.did.feed
    /\ prev.installed = last.did.installed
    /\ prev.file = last.before

\* C6: of two consecutive invocations that both scan the same feed and the
\* same installed skills, the second appends no alert to event.messages.
C6_Dedup == TwoScansOfTheSame => (last.did.alert = <<>> /\ ~last.did.pushed)

\* The first of two scans of the same alerted, the second had an array to
\* push to.
C6_Witness ==
    /\ TwoScansOfTheSame
    /\ prev.pushed
    /\ last.event.messagesIsArray
    /\ findMatches(last.did.feed.feed, last.did.installed) # <<>>

\* loadFeed threw in the latest invocation.
FeedNotLoaded ==
    /\ last.n > 0
    /\ last.did.step \in {"loadFailed", "scanned"}
    /\ IsThrow(last.did.failure) \/ IsThrow(last.did.feed)

\* C7: when the feed cannot be loaded the handler returns without writing
\* the state file: the persisted state is what it was, no alert is appended.
C7_FailSoft ==
    FeedNotLoaded =>
        /\ last.did.step = "loadFailed"
        /\ last.did.writes = 0
        /\ stateFile = last.before
        /\ last.did.sharedNotified = last.sharedBefore
        /\ last.did.alert = <<>>
        /\ ~last.did.pushed

\* The feed failed to load over a state file that holds an earlier scan.
C7_Witness ==
    /\ FeedNotLoaded
    /\ prev.step = "scanned"
    /\ last.before.kind = "json"
    /\ last.before.value.known_advisories # <<>>
    /\ stateFile = last.before

\* Minimum interval of the run in seconds.
IntervalOfRun == IF intervalEnv = <<"1">> THEN 1 ELSE 300

\* The state file held, when the latest invocation began, a last_hook_scan
\* less than the minimum interval before the clock.
ScannedWithinInterval ==
    /\ last.before.kind = "json"
    /\ last.before.value.isObject
    /\ last.before.value.last_hook_scan.t = "iso"
    /\ last.at - last.before.value.last_hook_scan.ms >= 0
    /\ last.at - last.before.value.last_hook_scan.ms < IntervalOfRun * 1000

IsEvent(event, type, action) ==
    /\ event.type # Null /\ Trim(event.type) = type
    /\ event.action # Null /\ Trim(event.action) = action

\* C8: agent:bootstrap within the minimum interval of the persisted
\* last_hook_scan returns without fetching, alerting or writing; command:new
\* always scans.
C8_RateLimit ==
    /\ (last.n > 0 /\ IsEvent(last.event, <<"a","g","e","n","t">>,
                                <<"b","o","o","t","s","t","r","a","p">>)
        /\ ScannedWithinInterval)
       => /\ last.did.step = "skipped"
          /\ last.did.fetched = <<>>
          /\ last.did.read = <<>>
          /\ last.did.alert = <<>>
          /\ ~last.did.pushed
          /\ last.did.writes = 0
          /\ stateFile = last.before
    /\ (last.n > 0 /\ IsEvent(last.event, <<"c","o","m","m","a","n","d">>, <<"n","e","w">>))
       => /\ last.did.step \in {"scanned", "loadFailed"}
          /\ last.did.fetched # <<>> \/ last.did.read # <<>> \/ IsThrow(last.did.failure)

\* agent:bootstrap right after a scan is skipped, one millisecond short of
\* the interval.
C8_Witness ==
    /\ last.n > 1
    /\ prev.step = "scanned"
    /\ IsEvent(last.event, <<"a","g","e","n","t">>, <<"b","o","o","t","s","t","r","a","p">>)
    /\ ScannedWithinInterval
    /\ last.at - last.before.value.last_hook_scan.ms = 999
    /\ last.did.step = "skipped"

\* command:new within the interval scans.
C8_WitnessForced ==
    /\ last.n > 0
    /\ IsEvent(last.event, <<"c","o","m","m","a","n","d">>, <<"n","e","w">>)
    /\ ScannedWithinInterval
    /\ last.did.step = "scanned"

\* The latest event is one of the two the hook handles.
HandledEvent ==
    \/ IsEvent(last.event, <<"a","g","e","n","t">>, <<"b","o","o","t","s","t","r","a","p">>)
    \/ IsEvent(last.event, <<"c","o","m","m","a","n","d">>, <<"n","e","w">>)

\* C21: for an event whose type:action is neither agent:bootstrap nor
\* command:new (an empty type or action included) the handler returns at
\* once: it does not read or write the state file, does not load the feed
\* and appends nothing to event.messages.
C21_IgnoresOtherEvents ==
    (last.n > 0 /\ ~HandledEvent) =>
        /\ last.did.step = "ignored"
        /\ last.did.stateReads = 0
        /\ last.did.writes = 0
        /\ stateFile = last.before
        /\ last.did.sharedNotified = last.sharedBefore
        /\ last.did.fetched = <<>>
        /\ last.did.read = <<>>
        /\ last.did.feed = NoResult
        /\ last.did.alert = <<>>
        /\ ~last.did.pushed

\* An event with a blank action, with an array to push to, right after a
\* scan that alerted; the clock has moved since.
C21_Witness ==
    /\ last.n > 1
    /\ ~HandledEvent
    /\ last.event.type # Null
    /\ last.event.action # Null /\ Trim(last.event.action) = <<>>
    /\ last.event.messagesIsArray
    /\ prev.step = "scanned"
    /\ prev.pushed
    /\ last.did.step = "ignored"

\* An event without a type whose action is "new", over a state file that is
\* no JSON.
C21_WitnessNoType ==
    /\ last.n > 0
    /\ last.event.type = Null
    /\ last.event.action = <<"n","e","w">>
    /\ last.before = CorruptFile
    /\ last.did.step = "ignored"

\* loadFeed returned a feed in the latest invocation.
FeedLoaded == last.n > 0 /\ last.did.feed.kind = "feed"

\* The matches of the latest invocation.
MatchesOfLast == findMatches(last.did.feed.feed, last.did.installed)

\* C22: after every successful feed load the handler calls persistState
\* exactly once before it returns, with no match, with matches all notified
\* before and with new matches alike, and the state it persists has
\* last_hook_scan and last_feed_check set to the time of this scan.
C22_PersistsAfterEveryLoad ==
    FeedLoaded =>
        /\ last.did.step = "scanned"
        /\ last.did.writes = 1
        /\ stateFile = last.did.file
        /\ stateFile.kind = "json"
        /\ stateFile.value.last_hook_scan = Iso(last.at)
        /\ stateFile.value.last_feed_check = Iso(last.at)

\* A scan whose matches were all notified by the scan before, one second
\* earlier.
C22_Witness ==
    /\ FeedLoaded
    /\ prev.step = "scanned"
    /\ prev.pushed
    /\ MatchesOfLast # <<>>
    /\ last.did.alert = <<>>
    /\ last.before.value.last_hook_scan = Iso(last.at - 1000)
    /\ stateFile.value.last_hook_scan = Iso(last.at)

\* A scan without matches.
C22_WitnessNoMatch ==
    /\ FeedLoaded
    /\ MatchesOfLast = <<>>
    /\ last.did.writes = 1
    /\ stateFile # last.before

\* A scan with new matches.
C22_WitnessNew ==
    /\ FeedLoaded
    /\ last.did.alert # <<>>
    /\ last.did.writes = 1

\* The state file that the latest invocation read was missing, no JSON or
\* a JSON value that is no object.
ReadNoState ==
    /\ last.n > 0
    /\ last.did.stateReads = 1
    /\ ~(last.before.kind = "json" /\ last.before.value.isObject)

\* C23: loadState never throws, and for a missing or unreadable file, a file
\* that is no JSON or a JSON value that is no object it returns the schema
\* defaults: schema_version 1.1, no known_advisories, null timestamps and an
\* empty notified_matches.
C23_LoadStateDefaults ==
    ReadNoState =>
        loadState(last.before, last.sharedBefore).state = DEFAULT_STATE(NoMatches)

\* In a process whose earlier invocations recorded no match, loadState
\* returns the schema defaults.
C23_DefaultsWhenNothingRecorded ==
    (ReadNoState /\ last.sharedBefore = NoMatches) =>
        loadState(last.before, last.sharedBefore).state = DEFAULT_STATE(NoMatches)

\* C24: the promise of the handler resolves in every invocation, whatever
\* fails in it: loading the feed, reading the install root or persisting
\* the state; the state file is then what it was.
C24_HandlerResolves == last.n > 0 => last.did.settled = "resolved"

\* When the feed cannot be loaded or the install root cannot be read, the
\* promise of the handler resolves.
C24_ResolvesUnlessPersistFails ==
    (last.n > 0 /\ last.did.writes = 0) => last.did.settled = "resolved"

\* Whenever the promise rejects the state file is what it was.
C24_RejectedKeepsState ==
    (last.n > 0 /\ last.did.settled = "rejected") => last.did.file = last.before

(***************************************************************************)
(* Properties of the loaders.                                              *)
(***************************************************************************)

\* The signature text carries an Ed25519 signature of the payload text made
\* with the private key of the configured public key.
SignedBy(payloadText, signatureText, keyText) ==
    /\ keyText.kind = "text" /\ keyText.is = "pem" /\ keyText.key # "none"
    /\ signatureText.kind = "text" /\ signatureText.is = "sig"
    /\ signatureText.form \in {"base64", "json"}
    /\ signatureText.bytes = [signer |-> keyText.key, over |-> payloadText]

\* What the remote loader is served and what the local loader finds.
ServedText(slot) ==
    IF load.env.w.net[slot].kind = "ok" THEN load.env.w.net[slot].body ELSE NoResult
FileText(slot) == load.env.files[slot]

\* The feed signature is missing, empty or invalid.
BadSignature(payloadText, signatureText, keyText) ==
    ~SignedBy(payloadText, signatureText, keyText)

\* C3: a feed returned by a loader without the unsigned bypass was verified
\* against its detached signature under the configured key; with a missing,
\* empty or invalid signature the local loader raises and the remote loader
\* returns null, and loadFeed hands no such feed to matching.
C3_FailClosed ==
    /\ (load.phase = "remote" /\ ~load.env.allowUnsigned)
       => /\ load.out.result.kind = "feed"
               => /\ SignedBy(ServedText("feed"), ServedText("sig"), PemOption(load.env))
                  /\ load.out.result.feed = ServedText("feed").doc
          /\ BadSignature(ServedText("feed"), ServedText("sig"), PemOption(load.env))
               => load.out.result = NoResult
    /\ (load.phase = "local" /\ ~load.env.allowUnsigned)
       => /\ load.out.result.kind = "feed"
               => /\ SignedBy(FileText("feed"), FileText("sig"), PemOption(load.env))
                  /\ load.out.result.feed = FileText("feed").doc
          /\ BadSignature(FileText("feed"), FileText("sig"), PemOption(load.env))
               => IsThrow(load.out.result)
    /\ (load.phase = "orchestrated" /\ ~load.env.allowUnsigned
        /\ load.out.result.kind = "feed")
       => \/ /\ load.out.source = "remote"
             /\ SignedBy(ServedText("feed"), ServedText("sig"), load.env.keyFile)
             /\ load.out.result.feed = ServedText("feed").doc
          \/ /\ load.out.source = "local"
             /\ SignedBy(FileText("feed"), FileText("sig"), load.env.keyFile)
             /\ load.out.result.feed = FileText("feed").doc

\* The remote loader returned null for a served feed whose signature was
\* made with another key.
C3_Witness ==
    /\ load.phase = "remote"
    /\ ~load.env.allowUnsigned
    /\ load.env.w.net.feed = NetOk(FA1)
    /\ load.env.w.net.sig = NetOk(Base64Sig(OtherKey, FA1))
    /\ load.env.keyFile = PemText(PinnedKey)
    /\ load.out.result = NoResult
    /\ load.out.touched = <<"feed", "sig">>

\* The local loader raised on a feed file without a signature file, and
\* returned a feed whose signature verifies.
C3_WitnessLocal ==
    /\ load.phase = "local"
    /\ ~load.env.allowUnsigned
    /\ FileText("feed") = FA1
    /\ \/ FileText("sig") = NoResult /\ IsThrow(load.out.result)
       \/ FileText("sig") = JsonSig(PinnedKey, FA1) /\ load.out.result.kind = "feed"

\* The URL may be requested: https, and a host that is an allow-listed
\* domain or ends with "." followed by one.
Permitted(url) ==
    /\ url.valid
    /\ url.protocol = "https:"
    /\ \E i \in 1..Len(ALLOWED_DOMAINS) :
          LET host == ToLower(url.hostname)
              domain == ALLOWED_DOMAINS[i]
              n == Len(host) - Len(domain)
          IN \/ host = domain
             \/ /\ n >= 1
                /\ host[n] = "."
                /\ \A j \in 1..Len(domain) : host[n + j] = domain[j]

\* The requests of the run: those of the remote loader.
Requests ==
    IF load.phase = "remote" THEN load.out.touched
    ELSE IF load.phase = "orchestrated" THEN load.out.remote.touched
    ELSE <<>>

\* C4: a remote load whose feed URL, or whose signature or checksum URL once
\* the loader comes to fetch it, is not https or not on the allow-list raises
\* the policy error to the caller of the remote loader; it does not become
\* null.
C4_PolicyErrorPropagates ==
    (load.phase = "remote" /\ (~Permitted(load.env.w.urls.feed) \/ load.out.policy))
        => /\ load.out.result = Throw("SecurityPolicyError")
           /\ load.out.result # NoResult

\* What holds instead: the policy error never leaves the remote loader, which
\* returns null after it, and no later URL is requested.
C4_PolicyErrorBecomesNull ==
    (load.phase = "remote" /\ load.out.policy)
        => /\ load.out.result = NoResult
           /\ \E slot \in {"feed", "sig", "sums", "sumsSig"} :
                 ~Permitted(load.env.w.urls[slot])

\* C5: no request is issued for a URL unless it is https and its lower-cased
\* host is an allow-listed domain or a subdomain of one; for all four URLs.
C5_OnlyPermittedRequests ==
    load.phase \in {"remote", "orchestrated"}
        => \A i \in 1..Len(Requests) : Permitted(load.env.w.urls[Requests[i]])

\* The feed was requested, the signature on a lookalike host was not.
C5_Witness ==
    /\ load.phase = "remote"
    /\ ~load.env.allowUnsigned
    /\ load.env.w.urls.sig.hostname = HostLookalike
    /\ load.env.w.urls.sig.protocol = "https:"
    /\ Requests = <<"feed">>

\* All four URLs were requested, the last on a subdomain written in capitals.
C5_WitnessAll ==
    /\ load.phase = "remote"
    /\ Requests = <<"feed", "sig", "sums", "sumsSig">>
    /\ load.env.w.urls.feed.hostname = HostUpper
    /\ load.env.w.urls.sig.hostname = HostSub

\* The manifest text lists for `name` the SHA-256 digest of `text`.
ListsDigest(manifestText, name, text) ==
    /\ manifestText.kind = "text" /\ manifestText.is = "manifest" /\ manifestText.json
    /\ \E i \in 1..Len(manifestText.doc.files) :
          /\ manifestText.doc.files[i].name = name
          /\ manifestText.doc.files[i].form \in {"string", "object"}
          /\ manifestText.doc.files[i].hex.style # "short"
          /\ manifestText.doc.files[i].hex.of = text

\* Nothing came back for the request: no answer, or an empty body.
NotFetched(text) == text = NoResult \/ text = EmptyText

\* The remote loader ran with checksum verification on, without the unsigned
\* bypass, on URLs it may request, and the served feed carries a valid
\* signature.
RemoteSignedFeed ==
    /\ load.phase = "remote"
    /\ ~load.env.allowUnsigned
    /\ load.env.verifyChecksumManifest
    /\ \A slot \in {"feed", "sig", "sums", "sumsSig"} : Permitted(load.env.w.urls[slot])
    /\ SignedBy(ServedText("feed"), ServedText("sig"), PemOption(load.env))

C13_WitnessRejected ==
    /\ RemoteSignedFeed
    /\ ~NotFetched(ServedText("sums")) /\ ~NotFetched(ServedText("sumsSig"))
    /\ ListsDigest(ServedText("sums"), FEED_JSON, ServedText("feed"))
    /\ \/ /\ ~SignedBy(ServedText("sums"), ServedText("sumsSig"), PemOption(load.env))
          /\ load.out.result = NoResult
       \/ /\ ~ListsDigest(ServedText("sums"), FEED_JSON_SIG, ServedText("sig"))
          /\ SignedBy(ServedText("sums"), ServedText("sumsSig"), PemOption(load.env))
          /\ IsThrow(load.out.result)

\* C14: with checksum verification on and without the unsigned bypass, the
\* local loader returns a feed only if the manifest file and its signature
\* file exist, the manifest signature verifies, and the manifest lists the
\* digests of the feed, of the feed signature and, when an entry for it is
\* configured, of the public key; when the manifest or its signature file is
\* absent it raises.
C14_LocalChecksumsRequired ==
    (load.phase = "local" /\ ~load.env.allowUnsigned /\ load.env.verifyChecksumManifest) =>
        /\ load.out.result.kind = "feed" =>
              /\ FileText("sums") # NoResult
              /\ FileText("sumsSig") # NoResult
              /\ SignedBy(FileText("sums"), FileText("sumsSig"), PemOption(load.env))
              /\ ListsDigest(FileText("sums"), load.entries.feed, FileText("feed"))
              /\ ListsDigest(FileText("sums"), load.entries.sig, FileText("sig"))
              /\ load.entries.key # <<>> =>
                    ListsDigest(FileText("sums"), load.entries.key, PemOption(load.env))
        /\ (FileText("sums") = NoResult \/ FileText("sumsSig") = NoResult)
              => IsThrow(load.out.result)

\* A feed file with a valid signature and no manifest beside it: the local
\* loader read as far as the manifest and raised.
C14_Witness ==
    /\ load.phase = "local"
    /\ ~load.env.allowUnsigned /\ load.env.verifyChecksumManifest
    /\ SignedBy(FileText("feed"), FileText("sig"), PemOption(load.env))
    /\ FileText("sums") = NoResult
    /\ load.out.touched = <<"feed", "sig", "sums">>
    /\ load.out.result = Throw("ENOENT")

\* The manifest lacks the entry of the public key: the feed is returned when
\* no such entry is configured and refused when one is.
C14_WitnessKeyEntry ==
    /\ load.phase = "local"
    /\ ~load.env.allowUnsigned /\ load.env.verifyChecksumManifest
    /\ SignedBy(FileText("sums"), FileText("sumsSig"), PemOption(load.env))
    /\ ~ListsDigest(FileText("sums"), KEY_PEM, PemOption(load.env))
    /\ ListsDigest(FileText("sums"), FEED_JSON_SIG, FileText("sig"))
    /\ \/ load.entries.key = <<>> /\ load.out.result.kind = "feed"
       \/ load.entries.key = KEY_PEM /\ IsThrow(load.out.result)

\* The document is an object with a non-empty string version and an array of
\* advisories, each with a non-empty string id, a non-empty string severity
\* and an array affected.
ShapeOk(doc) ==
    /\ doc.isObject
    /\ doc.version \notin {Null, <<>>}
    /\ doc.advisoriesIsArray
    /\ \A i \in 1..Len(doc.advisories) :
          /\ doc.advisories[i].id \notin {Null, <<>>}
          /\ doc.advisories[i].severity \notin {Null, <<>>}
          /\ doc.advisories[i].affectedIsArray

\* Signature, manifest and digests of what `text(slot)` holds are all valid
\* under the configured key.
AllVerifies(text(_)) ==
    /\ SignedBy(text("feed"), text("sig"), PemOption(load.env))
    /\ SignedBy(text("sums"), text("sumsSig"), PemOption(load.env))
    /\ ListsDigest(text("sums"), FEED_JSON, text("feed"))
    /\ ListsDigest(text("sums"), FEED_JSON_SIG, text("sig"))
    /\ ListsDigest(text("sums"), KEY_PEM, PemOption(load.env))

\* C15: a feed returned by a loader has the shape; a feed document without
\* it is returned by no loader, and when its signature and checksums are
\* valid (or the unsigned bypass is on) the remote loader returns null and
\* the local loader raises the format error.
C15_ShapeChecked ==
    /\ (load.phase \in {"remote", "local", "orchestrated"} /\ load.out.result.kind = "feed")
          => ShapeOk(load.out.result.feed)
    /\ (load.phase = "remote" /\ ServedText("feed").kind = "text" /\ ServedText("feed").is = "feed"
        /\ ServedText("feed").json
        /\ ~ShapeOk(ServedText("feed").doc))
          => /\ load.out.result.kind # "feed"
             /\ (AllVerifies(ServedText) \/ load.env.allowUnsigned)
                   => load.out.result = NoResult
    /\ (load.phase = "local" /\ FileText("feed").kind = "text" /\ FileText("feed").is = "feed"
        /\ FileText("feed").json
        /\ ~ShapeOk(FileText("feed").doc))
          => /\ IsThrow(load.out.result)
             /\ (AllVerifies(FileText) \/ load.env.allowUnsigned)
                   => load.out.result = Throw("Invalid advisory feed format")

\* A served feed whose second advisory has no id, with valid signature and
\* checksums: the remote loader fetched all four and returned null.
C15_Witness ==
    /\ load.phase = "remote"
    /\ ~load.env.allowUnsigned /\ load.env.verifyChecksumManifest
    /\ ServedText("feed") = FNoId
    /\ AllVerifies(ServedText)
    /\ load.out.touched = <<"feed", "sig", "sums", "sumsSig">>
    /\ load.out.result = NoResult

\* The same feed in local files: the local loader raised.
C15_WitnessLocal ==
    /\ load.phase = "local"
    /\ ~load.env.allowUnsigned /\ load.env.verifyChecksumManifest
    /\ FileText("feed") = FNoId
    /\ AllVerifies(FileText)
    /\ load.out.result = Throw("Invalid advisory feed format")

\* loadFeed was run, and it could read the public key (or needed none).
Orchestrated == load.phase = "orchestrated" /\ ~IsThrow(KeyRead(load.env))

\* What the two loaders yield in the world of the run, each called on its
\* own with the options loadFeed passes.
RemoteAlone == loadRemoteFeed(load.env.w, LoaderOptions(load.env, KeyRead(load.env)))
LocalAlone ==
    loadLocalFeed(load.env.files,
                  [feed |-> FEED_JSON, sig |-> FEED_JSON_SIG, key |-> load.env.keyEntry],
                  LoaderOptions(load.env, KeyRead(load.env)))

\* C27: loadFeed returns the remote feed whenever the remote loader yields
\* one, and then reads no local file; it reads the local feed exactly when
\* the remote loader returned null, and then returns the local feed or
\* throws the error of the local loader.
C27_RemoteFirst ==
    Orchestrated =>
        /\ load.out.remote = RemoteAlone
        /\ RemoteAlone.result.kind = "feed" =>
              /\ load.out.result = RemoteAlone.result
              /\ load.out.source = "remote"
              /\ load.out.local.touched = <<>>
        /\ load.out.local.touched # <<>> <=> RemoteAlone.result = NoResult
        /\ RemoteAlone.result = NoResult =>
              /\ load.out.local = LocalAlone
              /\ load.out.result = LocalAlone.result
              /\ load.out.result.kind \in {"feed", "throw"}

\* The remote loader returned null although feed.json was served, and the
\* local feed, a different one, was returned.
C27_Witness ==
    /\ Orchestrated
    /\ load.env.w.net.feed.kind = "ok"
    /\ load.out.remote.result = NoResult
    /\ load.out.source = "local"
    /\ load.out.result = FeedResult(DocB)

\* The remote feed was returned where the local files hold another feed.
C27_WitnessRemote ==
    /\ Orchestrated
    /\ load.out.source = "remote"
    /\ load.env.files = GoodFiles(FB)
    /\ load.out.result = FeedResult(DocA)
    /\ load.out.local.touched = <<>>

\* The remote loader returned null and the local loader threw.
C27_WitnessLocalThrows ==
    /\ Orchestrated
    /\ load.out.remote.result = NoResult
    /\ IsThrow(load.out.result)
    /\ load.out.local.touched # <<>>

\* The remote loader threw: no local file was read.
C27_WitnessRemoteThrows ==
    /\ Orchestrated
    /\ IsThrow(load.out.remote.result)
    /\ load.env.files = GoodFiles(FB)
    /\ load.out.local.touched = <<>>

\* A fetch load has ended.
FetchDone == load.phase = "done"

\* An aborted fetch of the feed or of its signature.
AbortedArtifact == load.aborted \cap {"feed", "sig"} # {}

\* The caller went on to the local loader.
LocalAttempted == load.out.local # NotRun

C26_WitnessManifest ==
    /\ FetchDone
    /\ load.aborted = {"sums", "sumsSig"}
    /\ load.out.source = "remote"

(***************************************************************************)
(* Properties of the guard gate.                                           *)
(***************************************************************************)

\* The run parsed its command line and loaded a feed.
GateLoaded ==
    /\ gate.phase = "exited"
    /\ gate.run.args.kind = "args"
    /\ gate.run.lf.result.kind = "feed"

\* Some advisory of the feed names the requested skill in a specifier whose
\* version range holds the requested version, when one was requested.
AdvisoryMatchesRequest(feed, skill, version) ==
    \E i \in 1..Len(feed.advisories) :
        \E j \in 1..Len(AffectedOf(feed.advisories[i])) :
            IF version # <<>>
            THEN affectedSpecifierMatches(AffectedOf(feed.advisories[i])[j], skill, version)
            ELSE affectedSpecifierMatchesWithoutVersion(AffectedOf(feed.advisories[i])[j], skill)

GateMatched ==
    AdvisoryMatchesRequest(gate.run.lf.result.feed, gate.run.args.skill, gate.run.args.version)

\* The feed the run used carries a valid signature of the pinned key: the
\* served feed and signature for a remote feed, the files for a local one.
GateFeedVerified ==
    \/ /\ gate.run.lf.source = "remote"
       /\ gate.env.w.net.feed.kind = "ok" /\ gate.env.w.net.sig.kind = "ok"
       /\ SignedBy(gate.env.w.net.feed.body, gate.env.w.net.sig.body, gate.env.keyFile)
    \/ /\ gate.run.lf.source = "local"
       /\ SignedBy(gate.env.files.feed, gate.env.files.sig, gate.env.keyFile)

\* C1: when the feed is loaded, an advisory matches the requested skill (and
\* version, if given) and --confirm-advisory is not given, the gate exits with
\* status 42 and starts no installer, with or without --dry-run.
C1_GateBlocks ==
    (GateLoaded /\ GateMatched /\ ~gate.run.args.confirmAdvisory)
        => /\ gate.run.exit = EXIT_CONFIRM_REQUIRED
           /\ gate.run.exit = 42
           /\ gate.run.spawned = <<>>

\* A blocked run with --dry-run given.
C1_Witness ==
    /\ GateLoaded /\ GateMatched /\ ~gate.run.args.confirmAdvisory
    /\ gate.run.args.dryRun
    /\ gate.run.exit = 42

\* A blocked run without --dry-run, for a requested version.
C1_WitnessInstall ==
    /\ GateLoaded /\ GateMatched /\ ~gate.run.args.confirmAdvisory
    /\ ~gate.run.args.dryRun
    /\ gate.run.args.version # <<>>
    /\ gate.run.exit = 42

\* C2, with (a) as the code has it: the installer is started at most once, and
\* only in a run where (a) a feed was loaded, and verified against its
\* signature unless CLAWSEC_ALLOW_UNSIGNED_FEED=1 is set, (b) no advisory
\* matched or --confirm-advisory was given, and (c) --dry-run was not given; in
\* every other run no installer is started.
C2_InstallerOnlyIf ==
    gate.phase = "exited"
        => /\ Len(gate.run.spawned) <= 1
           /\ gate.run.spawned # <<>>
                => /\ GateLoaded
                   /\ ~gate.env.allowUnsigned => GateFeedVerified
                   /\ ~GateMatched \/ gate.run.args.confirmAdvisory
                   /\ ~gate.run.args.dryRun

\* The installer ran after a confirmed match.
C2_Witness ==
    /\ GateLoaded /\ GateMatched /\ gate.run.args.confirmAdvisory
    /\ GateFeedVerified
    /\ gate.run.spawned # <<>>

\* The installer ran with no match, on a verified feed.
C2_WitnessNoMatch ==
    /\ GateLoaded /\ ~GateMatched /\ GateFeedVerified
    /\ gate.run.spawned = << gate.run.args.skill \o <<"@">> \o gate.run.args.version >>

\* C2 as stated: the installer is started only in a run where (a) a feed was
\* loaded and verified, (b) no advisory matched or --confirm-advisory was
\* given, and (c) --dry-run was not given.
C2_InstallerOnlyIfVerified ==
    (gate.phase = "exited" /\ gate.run.spawned # <<>>)
        => /\ GateLoaded
           /\ GateFeedVerified
           /\ ~GateMatched \/ gate.run.args.confirmAdvisory
           /\ ~gate.run.args.dryRun

(***************************************************************************)
(* Properties of state persistence.                                        *)
(***************************************************************************)

\* The whole state files there are to read: the one before the first call and
\* the ones the calls write.
WholeFiles ==
    (IF inodes[1] = <<>> THEN {} ELSE {PersistedFile(InitialState)})
        \cup { calls[c].file : c \in {b \in Calls : calls[b].pc # "idle"} }

\* No two calls have the same temp file name.
TmpNamesDiffer ==
    \A a, b \in Calls :
        (a # b /\ calls[a].pc \notin {"idle", "mkdir"} /\ calls[b].pc \notin {"idle", "mkdir"})
            => calls[a].tmp # calls[b].tmp

\* C9: a loadState that runs while persistState calls run reads the whole
\* previous state file or a whole newly written one (or finds no file where
\* none was ever written), never a partly written file.
C9_AtomicForReaders ==
    reader.pc = "done"
        => IF reader.fd = 0 THEN inodes[1] = <<>>
           ELSE /\ Complete(reader.raw)
                /\ reader.file \in WholeFiles
                /\ reader.state = normalizeState(reader.file.value, NoMatches).state

\* C9 for calls whose temp file names differ.
C9_AtomicWhenNamesDiffer == TmpNamesDiffer => C9_AtomicForReaders

\* A reader that ran beside the writers and read a newly written file whole.
C9_ReadsNew ==
    /\ reader.pc = "done"
    /\ \E c \in Calls : calls[c].pc # "idle" /\ reader.file = calls[c].file
    /\ \E c \in Calls : calls[c].pc \in {"writing", "written"}

\* A process was killed with a call between its writeFile and its rename.
KilledBeforeRename == \E c \in Calls : calls[c].pc = "killed" /\ calls[c].at = "written"

\* C10: after a kill between the write of the temp file and the rename, the
\* state file still holds the whole state that was there before (the one last
\* published by a rename, or none), and loadState returns it.
C10_KillKeepsPrior ==
    KilledBeforeRename
        => /\ dir[STATE_PATH] # 0 => Complete(inodes[dir[STATE_PATH]])
           /\ StateFileNow = committed
           /\ loadState(StateFileNow, NoMatches) = loadState(committed, NoMatches)

\* C10 for calls whose temp file names differ.
C10_KeepsPriorWhenNamesDiffer == TmpNamesDiffer => C10_KillKeepsPrior

\* The kill came with a state file in place that the killed call was to replace.
C10_KilledOverPrior ==
    /\ KilledBeforeRename
    /\ committed = PersistedFile(InitialState)
    /\ StateFileNow = committed

(***************************************************************************)
(* Properties of invocations racing in separate processes.                 *)
(***************************************************************************)

\* The dedup keys a state file records as notified, as loadState reads them.
NotifiedIn(file) == DOMAIN loadState(file, NoMatches).state.notified_matches

\* The processes whose persistState call renamed its temp file over the
\* state file.
Writers ==
    { pid \in Pids : race.of[pid].pc = "persisting"
                     /\ calls[pid].pc \in {"renamed", "done", "failed"} }

\* Both invocations have returned.
RaceOver ==
    \A pid \in Pids :
        \/ race.of[pid].pc = "returned"
        \/ race.of[pid].pc = "persisting" /\ calls[pid].pc \in {"done", "failed"}

\* The keys process pid appended an alert for.
AlertedBy(pid) ==
    IF race.of[pid].did.pushed
    THEN { race.of[pid].did.alert[i] : i \in 1..Len(race.of[pid].did.alert) }
    ELSE {}

C11_WitnessLost ==
    /\ RaceOver
    /\ Writers = Pids
    /\ \E pid \in Pids : AlertedBy(pid) \ NotifiedIn(StateFileNow) # {}

\* The paths of the temp files of persistState.
TmpPaths == { tmpFile(pid, t) : pid \in Pids, t \in 0..MaxClock }

GateFeedUnavailable ==
    IF gate.env.allowUnsigned
    THEN gate.env.w.net.feed.kind # "ok" /\ gate.env.files.feed = NoResult
    ELSE /\ ~(/\ gate.env.w.net.feed.kind = "ok"
              /\ gate.env.w.net.sig.kind = "ok"
              /\ SignedBy(gate.env.w.net.feed.body, gate.env.w.net.sig.body, gate.env.keyFile))
         /\ ~SignedBy(gate.env.files.feed, gate.env.files.sig, gate.env.keyFile)

\* The command line was parsed and the run went on to load the feed.
GateParsed == gate.phase = "exited" /\ gate.run.args.kind = "args"

\* C19: when neither the remote nor the local feed can be loaded and
\* verified, or loadFeed fails for any other reason, the gate exits with
\* status 1 and starts no installer, with --confirm-advisory or without.
C19_GateFailsClosed ==
    (GateParsed /\ (GateFeedUnavailable \/ IsThrow(gate.run.lf.result)))
        => /\ IsThrow(gate.run.lf.result)
           /\ gate.run.exit = 1
           /\ gate.run.spawned = <<>>

\* The local feed file has no signature file, the unsigned bypass is off and
\* --confirm-advisory is given: the run ended with 1 after reading as far as
\* the missing signature.
C19_Witness ==
    /\ GateParsed
    /\ gate.run.args.confirmAdvisory /\ ~gate.run.args.dryRun
    /\ ~gate.env.allowUnsigned
    /\ gate.env.files.feed # NoResult /\ gate.env.files.sig = NoResult
    /\ gate.run.lf.local.touched = <<"feed", "sig">>
    /\ gate.run.exit = 1
    /\ gate.run.spawned = <<>>

\* The run goes past the confirmation: nothing matched, or
\* --confirm-advisory is given.
GateProceeds == GateLoaded /\ (~GateMatched \/ gate.run.args.confirmAdvisory)

\* C20: a run that goes past the confirmation ends, with --dry-run, with
\* status 0 and without starting the installer; without --dry-run it starts
\* the installer on the requested target and ends with 0 when the installer
\* exits with 0 and with the installer's status when that is not 0.
C20_ExitStatusOfInstaller ==
    GateProceeds =>
        IF gate.run.args.dryRun
        THEN gate.run.exit = 0 /\ gate.run.spawned = <<>>
        ELSE /\ gate.run.spawned =
                   << InstallTarget(gate.run.args.skill, gate.run.args.version) >>
             /\ gate.installer = InstallerStatus(Num(0)) => gate.run.exit = 0
             /\ \A n \in 1..255 :
                   gate.installer = InstallerStatus(Num(n)) => gate.run.exit = n

\* A confirmed match whose installer exited with 3: so did the gate.
C20_Witness ==
    /\ GateProceeds
    /\ GateMatched /\ gate.run.args.confirmAdvisory /\ ~gate.run.args.dryRun
    /\ gate.installer = InstallerStatus(Num(3))
    /\ gate.run.exit = 3

\* A dry run without a match, and an installer that exited with 0.
C20_WitnessZero ==
    /\ GateProceeds
    /\ ~GateMatched
    /\ gate.run.exit = 0
    /\ \/ gate.run.args.dryRun /\ gate.run.spawned = <<>>
       \/ ~gate.run.args.dryRun /\ gate.installer = InstallerStatus(Num(0))

(***************************************************************************)
(* Properties of the persisted state.                                      *)
(***************************************************************************)

\* The advisory ids a state file holds in known_advisories.
KnownIn(file) ==
    IF file.kind = "json" /\ file.value.isObject
    THEN { file.value.known_advisories[i] : i \in 1..Len(file.value.known_advisories) }
    ELSE {}

C16_VerifyTotalAndExact ==
    (pure.fn = "verifySignedPayload" /\ pure.phase = "done") =>
        /\ pure.out \in BOOLEAN
        /\ pure.out <=> SignedBy(pure.args[1], pure.args[2], pure.args[3])

\* A JSON envelope holding the signature of the payload verified.
C16_Witness ==
    /\ pure.fn = "verifySignedPayload" /\ pure.phase = "done"
    /\ pure.args[2] = JsonSig(PinnedKey, FA1)
    /\ pure.args[3] = PemText(PinnedKey)
    /\ pure.out = TRUE

\* The signature of the same document in other bytes, under the right key,
\* did not verify; nor did a right signature under a text that is no key.
C16_WitnessFalse ==
    /\ pure.fn = "verifySignedPayload" /\ pure.phase = "done"
    /\ pure.out = FALSE
    /\ \/ /\ pure.args[1] = FA2
          /\ pure.args[2] = Base64Sig(PinnedKey, FA1)
          /\ pure.args[3] = PemText(PinnedKey)
       \/ /\ pure.args[2] = Base64Sig(PinnedKey, pure.args[1])
          /\ pure.args[3] = PemText("none")

\* The required entries of a call: those with a name.
RequiredOf(expectedEntries) ==
    { expectedEntries[i] : i \in { j \in 1..Len(expectedEntries) :
                                     expectedEntries[j].name # <<>> } }

\* The manifest lists for the entry's name the digest of the entry's content.
ManifestHolds(manifest, entry) ==
    \E i \in 1..Len(manifest.files) :
        /\ manifest.files[i].name = entry.name
        /\ manifest.files[i].digest.of = entry.content

ManifestNames(manifest) == { manifest.files[i].name : i \in 1..Len(manifest.files) }

\* C17: verifyChecksums raises when a required entry is not in the manifest
\* and when the digest of a required entry's content is not the listed one;
\* it succeeds only when every required entry is listed with the digest of
\* its content.
C17_ChecksumsAllRequired ==
    (pure.fn = "verifyChecksums" /\ pure.phase = "done") =>
        /\ (\E entry \in RequiredOf(pure.args[2]) :
               entry.name \notin ManifestNames(pure.args[1]))
              => IsThrow(pure.out)
        /\ (\E entry \in RequiredOf(pure.args[2]) :
               /\ entry.name \in ManifestNames(pure.args[1])
               /\ ~ManifestHolds(pure.args[1], entry))
              => IsThrow(pure.out)
        /\ ~IsThrow(pure.out)
              => \A entry \in RequiredOf(pure.args[2]) : ManifestHolds(pure.args[1], entry)
        /\ (\A entry \in RequiredOf(pure.args[2]) : ManifestHolds(pure.args[1], entry))
              => pure.out = [kind |-> "ok"]

\* Two entries were required, the manifest lists the first with its digest
\* and not the second: the verification raised.
C17_Witness ==
    /\ pure.fn = "verifyChecksums" /\ pure.phase = "done"
    /\ Len(pure.args[2]) = 2
    /\ ManifestHolds(pure.args[1], pure.args[2][1])
    /\ pure.args[2][2].name # <<>>
    /\ pure.args[2][2].name \notin ManifestNames(pure.args[1])
    /\ pure.out = Throw("Checksum manifest missing required entry")

\* Both required entries are listed, the second with another digest.
C17_WitnessMismatch ==
    /\ pure.fn = "verifyChecksums" /\ pure.phase = "done"
    /\ Len(pure.args[2]) = 2
    /\ ManifestHolds(pure.args[1], pure.args[2][1])
    /\ pure.args[2][2].name \in ManifestNames(pure.args[1])
    /\ ~ManifestHolds(pure.args[1], pure.args[2][2])
    /\ pure.out = Throw("Checksum mismatch")

\* The advisory names the skill: one of its affected specifiers has the
\* normalized name of the requested skill.
NamesSkill(advisory, skillName) ==
    \E j \in 1..Len(advisory.affected) :
        /\ parseAffectedSpecifier(advisory.affected[j]).ok
        /\ normalizeSkillName(parseAffectedSpecifier(advisory.affected[j]).name)
              = normalizeSkillName(skillName)

\* One of the specifiers that name the skill has a version spec the version
\* satisfies.
NamesSkillAt(advisory, skillName, version) ==
    \E j \in 1..Len(advisory.affected) :
        /\ parseAffectedSpecifier(advisory.affected[j]).ok
        /\ normalizeSkillName(parseAffectedSpecifier(advisory.affected[j]).name)
              = normalizeSkillName(skillName)
        /\ versionMatches(version, parseAffectedSpecifier(advisory.affected[j]).versionSpec)

MatchedAdvisories(matches) == { matches[i].advisory : i \in 1..Len(matches) }

\* C18: without a version the gate's findMatches returns an advisory exactly
\* when one of its affected specifiers names the requested skill, whatever
\* its version spec; with a version it returns an advisory only when the
\* version satisfies the version spec of such a specifier.
C18_NameOnlyWithoutVersion ==
    (pure.fn = "findMatches" /\ pure.phase = "done") =>
        /\ pure.args[3] = <<>> =>
              \A i \in 1..Len(pure.args[1].advisories) :
                  pure.args[1].advisories[i] \in MatchedAdvisories(pure.out)
                      <=> NamesSkill(pure.args[1].advisories[i], pure.args[2])
        /\ pure.args[3] # <<>> =>
              \A advisory \in MatchedAdvisories(pure.out) :
                  NamesSkillAt(advisory, pure.args[2], pure.args[3])

\* Without a version an advisory matched that the version 2.0.0 of the same
\* request would not satisfy.
C18_Witness ==
    /\ pure.fn = "findMatches" /\ pure.phase = "done"
    /\ pure.args[3] = <<>>
    /\ \E advisory \in MatchedAdvisories(pure.out) :
          ~NamesSkillAt(advisory, pure.args[2], V200)

\* With a version an advisory that names the skill did not match.
C18_WitnessVersion ==
    /\ pure.fn = "findMatches" /\ pure.phase = "done"
    /\ pure.args[3] # <<>>
    /\ \E i \in 1..Len(pure.args[1].advisories) :
          /\ NamesSkill(pure.args[1].advisories[i], pure.args[2])
          /\ pure.args[1].advisories[i] \notin MatchedAdvisories(pure.out)

\* The name and the version spec a specifier is made of: what precedes and
\* what follows its last "@", the whole specifier and "*" when it has none
\* past its first character.
NameOf(specifier) ==
    IF LastIndexOf(Trim(specifier), "@") <= 0 THEN Trim(specifier)
    ELSE SubSeq(Trim(specifier), 1, LastIndexOf(Trim(specifier), "@"))
VersionSpecOf(specifier) ==
    IF LastIndexOf(Trim(specifier), "@") <= 0 THEN <<"*">>
    ELSE SliceFrom(Trim(specifier), LastIndexOf(Trim(specifier), "@") + 1)

\* The specifier names the skill and the version of the skill satisfies it.
Satisfies(specifier, skill) ==
    /\ Trim(specifier) # <<>>
    /\ ToLower(Trim(NameOf(specifier))) = ToLower(Trim(skill.name))
    /\ versionMatches(skill.version, VersionSpecOf(specifier))

SatisfyingSet(advisory, skill) ==
    { advisory.affected[n] : n \in { m \in 1..Len(advisory.affected) :
                                        Satisfies(advisory.affected[m], skill) } }

\* The pairs (advisory i of the feed, installed skill j) with a satisfying
\* specifier.
MatchingPairs(feed, installedSkills) ==
    { p \in (1..Len(feed.advisories)) \X (1..Len(installedSkills)) :
        SatisfyingSet(feed.advisories[p[1]], installedSkills[p[2]]) # {} }

\* The matches returned for advisory i and skill j, by their places in the
\* result.
MatchesOfPair(matches, feed, installedSkills, p) ==
    { m \in 1..Len(matches) :
        /\ matches[m].advisory = feed.advisories[p[1]]
        /\ matches[m].skill = installedSkills[p[2]] }

\* The value pairs (advisory, skill) among the matching pairs.
MatchingValues(feed, installedSkills) ==
    { <<feed.advisories[p[1]], installedSkills[p[2]]>> : p \in MatchingPairs(feed, installedSkills) }

\* C28: findMatches of lib/matching.ts returns one match for each pair
\* (advisory, installed skill) with at least one specifier whose normalized
\* name is the skill's and whose version spec the skill's version
\* satisfies; its matchedAffected is the list of all satisfying specifiers
\* without repetition; an advisory without specifiers and a pair without
\* satisfying specifier give no match.
C28_OneMatchPerPair ==
    (pure.fn = "matching.findMatches" /\ pure.phase = "done") =>
        /\ Len(pure.out) = Cardinality(MatchingPairs(pure.args[1], pure.args[2]))
        /\ \A p \in MatchingPairs(pure.args[1], pure.args[2]) :
              MatchesOfPair(pure.out, pure.args[1], pure.args[2], p) # {}
        /\ \A m \in 1..Len(pure.out) :
              /\ <<pure.out[m].advisory, pure.out[m].skill>>
                    \in MatchingValues(pure.args[1], pure.args[2])
              /\ { pure.out[m].matchedAffected[n] : n \in 1..Len(pure.out[m].matchedAffected) }
                    = SatisfyingSet(pure.out[m].advisory, pure.out[m].skill)
              /\ Cardinality(SatisfyingSet(pure.out[m].advisory, pure.out[m].skill))
                    = Len(pure.out[m].matchedAffected)
              /\ pure.out[m].advisory.affected # <<>>

\* Two installed skills are matched by the same advisory, one of them by a
\* specifier listed twice and by one written in another letter case.
C28_Witness ==
    /\ pure.fn = "matching.findMatches"
    /\ pure.phase = "done"
    /\ Len(pure.out) >= 2
    /\ \E m \in 1..Len(pure.out) :
          /\ pure.out[m].advisory = AdvMulti
          /\ pure.out[m].matchedAffected = <<SpecA100, <<"a"," ","@","*">> >>
    /\ \E m \in 1..Len(pure.out) :
          /\ pure.out[m].advisory = AdvMulti
          /\ pure.out[m].matchedAffected = <<SpecAUpper, <<"a"," ","@","*">> >>

\* Installed skills and a feed with advisories, none of which matches.
C28_WitnessNone ==
    /\ pure.fn = "matching.findMatches"
    /\ pure.phase = "done"
    /\ pure.args[1] = DocB
    /\ Len(pure.args[2]) = 2
    /\ pure.out = <<>>

\* versionMatches was applied to a version and a range of this operator,
\* both of which parseSemver accepts.
RangeApplied(operator) ==
    /\ pure.fn = "versionMatches"
    /\ pure.phase = "done"
    /\ pure.args[2] = operator
    /\ parseSemver(pure.args[1]) # Null
    /\ parseSemver(pure.args[3]) # Null

\* a is greater than or equal to b on the three numeric components.
AtLeast(a, b) ==
    \/ a[1] > b[1]
    \/ a[1] = b[1] /\ a[2] > b[2]
    \/ a[1] = b[1] /\ a[2] = b[2] /\ a[3] >= b[3]

InCaretRange(a, t) ==
    /\ a[1] = t[1]
    /\ (t[1] = 0 => a[2] = t[2])
    /\ AtLeast(a, t)

InTildeRange(a, t) ==
    /\ a[1] = t[1]
    /\ a[2] = t[2]
    /\ AtLeast(a, t)

\* C29 as stated: for every parseable installed version A and target T,
\* versionMatches(A, "^T") is true exactly when A has the major of T, also
\* the minor of T when that major is 0, and is greater than or equal to T on
\* the first three numeric components.
C29_CaretEveryTarget ==
    RangeApplied(<<"^">>) =>
        (pure.out <=> InCaretRange(parseSemver(pure.args[1]), parseSemver(pure.args[3])))

\* C29: the same for every parseable target without "*"; a range with "*"
\* is matched as a glob against the whole installed version.
C29_CaretRanges ==
    /\ (RangeApplied(<<"^">>) /\ ~Includes(pure.args[3], "*")) =>
          (pure.out <=> InCaretRange(parseSemver(pure.args[1]), parseSemver(pure.args[3])))
    /\ (RangeApplied(<<"^">>) /\ Includes(pure.args[3], "*")) =>
          (pure.out <=> GlobMatch(<<"^">> \o pure.args[3], StripLeadingV(pure.args[1])))

\* 1.2.3 satisfies ^1.0.0.
C29_Witness ==
    /\ RangeApplied(<<"^">>)
    /\ pure.args[1] = <<"1",".","2",".","3">>
    /\ pure.args[3] = V100
    /\ pure.out = TRUE

\* 2.0.0 does not satisfy ^1.0.0.
C29_WitnessMajor ==
    /\ RangeApplied(<<"^">>)
    /\ pure.args[1] = V200
    /\ pure.args[3] = V100
    /\ pure.out = FALSE

\* 0.3.0 does not satisfy ^0.2.0, 0.2.5 does.
C29_WitnessZeroMajor ==
    /\ RangeApplied(<<"^">>)
    /\ pure.args[3] = <<"0",".","2",".","0">>
    /\ \/ pure.args[1] = <<"0",".","3",".","0">> /\ pure.out = FALSE
       \/ pure.args[1] = <<"0",".","2",".","5">> /\ pure.out = TRUE

\* C30 as stated: for every parseable installed version A and target T,
\* versionMatches(A, "~T") is true exactly when A has the major and the minor
\* of T and is greater than or equal to T on the first three numeric
\* components.
C30_TildeEveryTarget ==
    RangeApplied(<<"~">>) =>
        (pure.out <=> InTildeRange(parseSemver(pure.args[1]), parseSemver(pure.args[3])))

\* C30: the same for every parseable target without "*"; a range with "*"
\* is matched as a glob against the whole installed version.
C30_TildeRanges ==
    /\ (RangeApplied(<<"~">>) /\ ~Includes(pure.args[3], "*")) =>
          (pure.out <=> InTildeRange(parseSemver(pure.args[1]), parseSemver(pure.args[3])))
    /\ (RangeApplied(<<"~">>) /\ Includes(pure.args[3], "*")) =>
          (pure.out <=> GlobMatch(<<"~">> \o pure.args[3], StripLeadingV(pure.args[1])))

\* 1.2.3 satisfies ~1.2.0.
C30_Witness ==
    /\ RangeApplied(<<"~">>)
    /\ pure.args[1] = <<"1",".","2",".","3">>
    /\ pure.args[3] = <<"1",".","2",".","0">>
    /\ pure.out = TRUE

\* 1.3.0, written v1.3.0, does not satisfy ~1.2.0.
C30_WitnessMinor ==
    /\ RangeApplied(<<"~">>)
    /\ pure.args[1] = <<"v","1",".","3",".","0">>
    /\ pure.args[3] = <<"1",".","2",".","0">>
    /\ pure.out = FALSE

\* versionMatches was applied; the spec it was given.
VersionApplied == pure.fn = "versionMatches" /\ pure.phase = "done"
SpecGiven == pure.args[2] \o pure.args[3]

\* "*" or "any" in any letter case.
IsWildcardSpec(spec) ==
    \/ Trim(spec) = <<"*">>
    \/ ToLower(Trim(spec)) = <<"a","n","y">>

\* "unknown" in any letter case, or no version.
IsUnknownVersion(version) ==
    \/ version = Null
    \/ version = <<>>
    \/ ToLower(Trim(version)) = <<"u","n","k","n","o","w","n">>

\* C31: versionMatches(v, s) is true for every installed version v, null
\* and "unknown" included, when s is "*" or "any" in any letter case; when v
\* is "unknown" in any letter case or missing, it is false for every
\* concrete spec (exact, glob, comparator, caret or tilde).
C31_WildcardAndUnknown ==
    /\ (VersionApplied /\ IsWildcardSpec(SpecGiven)) => pure.out = TRUE
    /\ (VersionApplied /\ IsUnknownVersion(pure.args[1])
           /\ Trim(SpecGiven) # <<>> /\ ~IsWildcardSpec(SpecGiven)) => pure.out = FALSE

\* The version UNKNOWN does not match the exact spec UNKNOWN.
C31_Witness ==
    /\ VersionApplied
    /\ pure.args[1] = <<"U","N","K","N","O","W","N">>
    /\ SpecGiven = <<"U","N","K","N","O","W","N">>
    /\ pure.out = FALSE

\* No version at all matches the spec ANY.
C31_WitnessAny ==
    /\ VersionApplied
    /\ pure.args[1] = Null
    /\ SpecGiven = <<"A","N","Y">>
    /\ pure.out = TRUE

\* The version unknown does not match the glob 1.* nor >=1.0.0.
C31_WitnessConcrete ==
    /\ VersionApplied
    /\ pure.args[1] = Unknown
    /\ SpecGiven \in { <<"1",".","*">>, <<">","=">> \o V100 }
    /\ pure.out = FALSE

\* The first three dot-separated components of a version, after a leading
\* v and what follows the first "-" are removed.
FirstThree(version) ==
    LET parts == Split(Split(StripLeadingV(Trim(Str(version))), "-")[1], ".")
    IN SubSeq(parts, 1, IF Len(parts) < 3 THEN Len(parts) ELSE 3)

\* A component made of digits only.
IsNumeric(part) == part # <<>> /\ \A i \in 1..Len(part) : IsDigit(part[i])

HasNonNumeric(version) ==
    \E i \in 1..Len(FirstThree(version)) : ~IsNumeric(FirstThree(version)[i])

\* versionMatches was applied to a comparator, caret or tilde spec.
RangeSpecApplied == VersionApplied /\ pure.args[2] # <<>>

\* C35: if the installed version or the target has a non-numeric component
\* among its first three, versionMatches returns false for every
\* comparator, caret and tilde spec.
C35_NonNumericNeverMatches ==
    (RangeSpecApplied /\ (HasNonNumeric(pure.args[1]) \/ HasNonNumeric(pure.args[3])))
        => pure.out = FALSE

\* Where parseSemver yields null for the installed version or the target,
\* every comparator, caret and tilde spec without "*" is false.
C35_NullNeverMatches ==
    (RangeSpecApplied /\ ~Includes(pure.args[3], "*")
       /\ (parseSemver(pure.args[1]) = Null \/ parseSemver(pure.args[3]) = Null))
        => pure.out = FALSE

\* 1.x has been compared with >=1.0.0 and 1.2.3 with ^x.
C35_WitnessNull ==
    /\ RangeSpecApplied
    /\ pure.out = FALSE
    /\ \/ pure.args = << <<"1",".","x">>, <<">","=">>, V100 >>
       \/ pure.args = << <<"1",".","2",".","3">>, <<"^">>, <<"x">> >>

\* The last invocation scanned: the matches it found, the notified_matches
\* it loaded and the ones it wrote.
Scanned == last.n > 0 /\ last.did.step = "scanned"
MatchesScanned == findMatches(last.did.feed.feed, last.did.installed)
NotifiedLoaded == loadState(last.before, last.sharedBefore).state.notified_matches
NotifiedWritten == last.did.file.value.notified_matches
AlertedKeys == { last.did.alert[i] : i \in 1..Len(last.did.alert) }

\* C32: in a hook scan, every match whose dedup key is not in the loaded
\* notified_matches is both included in an alert appended to event.messages
\* and recorded in notified_matches in the same invocation; a dedup key is
\* recorded as notified only in an invocation that appended an alert
\* covering that match.
C32_AlertedAndRecorded ==
    Scanned =>
        /\ \A i \in 1..Len(MatchesScanned) :
              matchKey(MatchesScanned[i]) \notin DOMAIN NotifiedLoaded =>
                  /\ last.did.pushed
                  /\ matchKey(MatchesScanned[i]) \in AlertedKeys
                  /\ matchKey(MatchesScanned[i]) \in DOMAIN NotifiedWritten
        /\ \A key \in DOMAIN NotifiedWritten \ DOMAIN NotifiedLoaded :
              last.did.pushed /\ key \in AlertedKeys

\* The same holds of every scan whose event carries a messages array.
C32_AlertedWhenMessagesArray ==
    (Scanned /\ last.event.messagesIsArray) =>
        /\ \A i \in 1..Len(MatchesScanned) :
              matchKey(MatchesScanned[i]) \notin DOMAIN NotifiedLoaded =>
                  /\ last.did.pushed
                  /\ matchKey(MatchesScanned[i]) \in AlertedKeys
                  /\ matchKey(MatchesScanned[i]) \in DOMAIN NotifiedWritten
        /\ \A key \in DOMAIN NotifiedWritten \ DOMAIN NotifiedLoaded :
              last.did.pushed /\ key \in AlertedKeys

\* A scan on an event without messages array recorded a key.
C32_WitnessNoArray ==
    /\ Scanned
    /\ ~last.event.messagesIsArray
    /\ DOMAIN NotifiedWritten # DOMAIN NotifiedLoaded
    /\ ~last.did.pushed

\* The last invocation called loadState on a missing or corrupt state file.
ReadMissingOrCorrupt ==
    /\ last.n > 0
    /\ last.did.stateReads = 1
    /\ last.before.kind \in {"missing", "corrupt"}

\* C33: no in-memory state carries over between hook invocations: whenever
\* the state file is missing or corrupt, loadState returns a state whose
\* notified_matches and known_advisories are empty, whatever earlier
\* invocations in the same process recorded, so such a scan alerts on every
\* current match.
C33_NoCarryOver ==
    ReadMissingOrCorrupt =>
        /\ NotifiedLoaded = NoMatches
        /\ loadState(last.before, last.sharedBefore).state.known_advisories = <<>>
        /\ Scanned => \A i \in 1..Len(MatchesScanned) :
                          matchKey(MatchesScanned[i]) \in AlertedKeys

\* The known_advisories that loadState returns for a missing or corrupt
\* state file are empty.
C33_KnownAdvisoriesFresh ==
    ReadMissingOrCorrupt =>
        loadState(last.before, last.sharedBefore).state.known_advisories = <<>>

\* A scan found the state file missing and a match, and stayed silent
\* because an earlier invocation of the process had recorded the match.
C33_WitnessCarried ==
    /\ ReadMissingOrCorrupt
    /\ Scanned
    /\ MatchesScanned # <<>>
    /\ last.did.alert = <<>>
    /\ last.sharedBefore # NoMatches

\* matchKey was applied to two matches and gave the same key.
SameKey ==
    /\ pure.fn = "matchKey"
    /\ pure.phase = "done"
    /\ pure.out[1] = pure.out[2]

\* The two matches have the same advisory id, normalized skill name and
\* installed version.
SameTriple(left, right) ==
    /\ left.advisory.id = right.advisory.id
    /\ ToLower(Trim(left.skill.name)) = ToLower(Trim(right.skill.name))
    /\ left.skill.version = right.skill.version

\* C34: matchKey is injective on (advisory id, normalized skill name,
\* installed version): two matches get the same dedup key only if they have
\* the same advisory id, the same normalized name and the same version.
C34_MatchKeyInjective == SameKey => SameTriple(pure.args[1], pure.args[2])

\* No ":" in the skill name and no "@" in the skill name or the version.
PlainSkill(skill) ==
    /\ ~Includes(skill.name, ":")
    /\ ~Includes(skill.name, "@")
    /\ ~Includes(skill.version, "@")

\* Among matches whose skill names and versions hold no separator of the
\* key, the same key means the same triple.
C34_InjectiveOnPlainSkills ==
    (SameKey /\ PlainSkill(pure.args[1].skill) /\ PlainSkill(pure.args[2].skill))
        => SameTriple(pure.args[1], pure.args[2])

\* Two matches with skill names b and "B " of the same version got the same
\* key.
C34_WitnessSame ==
    /\ SameKey
    /\ pure.args[1].skill.name = <<"b">>
    /\ pure.args[2].skill.name = <<"B"," ">>

\* The skill b of version 1@2 and the skill b@1 of version 2 got the same
\* key.
C34_WitnessCollision ==
    /\ SameKey
    /\ pure.args[1].skill.name = <<"b">>
    /\ pure.args[2].skill.name = <<"b","@","1">>
    /\ pure.args[1].advisory.id = pure.args[2].advisory.id

\* parseChecksumsManifest was applied; the three fields of the chain, in
\* its order.
ManifestParsed == pure.fn = "parseChecksumsManifest" /\ pure.phase = "done"
ChainOf(doc) == <<doc.schema_version, doc.version, doc.generated_at>>

\* A field that is present and not blank.
NonEmptyField(field) == field # Null /\ Trim(field) # <<>>

\* The first element of the chain that satisfies Test, 0 when none does.
FirstOf(chain, Test(_)) ==
    IF \E i \in 1..Len(chain) : Test(chain[i])
    THEN CHOOSE i \in 1..Len(chain) : Test(chain[i]) /\ \A j \in 1..(i - 1) : ~Test(chain[j])
    ELSE 0

IsPresent(field) == field # Null

FirstNonEmpty(doc) == FirstOf(ChainOf(doc), NonEmptyField)
FirstPresent(doc) == FirstOf(ChainOf(doc), IsPresent)

\* C36: the schema version of a checksum manifest is the first non-empty
\* value among schema_version, version and generated_at, in that order, and
\* "1" when none is present; a manifest carrying any one of these fields is
\* accepted.
C36_FirstNonEmptyWins ==
    ManifestParsed =>
        /\ FirstNonEmpty(pure.args[1].doc) # 0 =>
              /\ ~IsThrow(pure.out)
              /\ pure.out.schemaVersion
                    = Trim(ChainOf(pure.args[1].doc)[FirstNonEmpty(pure.args[1].doc)])
        /\ FirstPresent(pure.args[1].doc) = 0 =>
              /\ ~IsThrow(pure.out)
              /\ pure.out.schemaVersion = <<"1">>

\* The schema version is the trimmed first field that is a string, empty or
\* not, and "1" when none is; the manifest is rejected when that text is
\* empty.
C36_FirstStringWins ==
    ManifestParsed =>
        /\ FirstPresent(pure.args[1].doc) = 0 =>
              /\ ~IsThrow(pure.out)
              /\ pure.out.schemaVersion = <<"1">>
        /\ (FirstPresent(pure.args[1].doc) # 0
               /\ Trim(ChainOf(pure.args[1].doc)[FirstPresent(pure.args[1].doc)]) = <<>>) =>
              pure.out = Throw("Checksum manifest missing schema_version")
        /\ (FirstPresent(pure.args[1].doc) # 0
               /\ Trim(ChainOf(pure.args[1].doc)[FirstPresent(pure.args[1].doc)]) # <<>>) =>
              /\ ~IsThrow(pure.out)
              /\ pure.out.schemaVersion
                    = Trim(ChainOf(pure.args[1].doc)[FirstPresent(pure.args[1].doc)])

\* A manifest with a blank schema_version and a version was rejected.
C36_WitnessBlankFirst ==
    /\ ManifestParsed
    /\ pure.args[1].doc.schema_version = <<" ">>
    /\ pure.args[1].doc.version = <<"0",".","0",".","1">>
    /\ IsThrow(pure.out)

\* A manifest with generated_at alone was accepted with it.
C36_WitnessLegacy ==
    /\ ManifestParsed
    /\ pure.args[1].doc.schema_version = Null
    /\ pure.args[1].doc.version = Null
    /\ ~IsThrow(pure.out)
    /\ pure.out.schemaVersion = <<"2","0","2","6">>

\* buildAlertMessage was applied; the fixed texts of its lines.
AlertBuilt == pure.fn = "buildAlertMessage" /\ pure.phase = "done"
FixedOf(lines) == { lines[i].fixed : i \in 1..Len(lines) }
ItemsOf(lines, fixed) == { lines[i].items : i \in { j \in 1..Len(lines) : lines[j].fixed = fixed } }

\* The texts of the double-confirmation notice and of the generic
\* recommendation.
NoticeTexts ==
    { "Recommendation: one or more matches indicate potentially malicious or unsafe skills.",
      "Best practice: remove or disable affected skills only after explicit user approval.",
      "Double-confirmation policy: treat the install request as first intent and require an additional explicit confirmation with this advisory context.",
      "Approval needed: ask the user to approve removal of: ",
      "Candidate removal paths:",
      "- " }
GenericText == "Recommendation: review advisories and update/remove affected skills as directed."

\* The matches whose advisory is classified as malicious or as recommending
\* removal, by their places in the list.
UnsafePlaces(matches) ==
    { i \in 1..Len(matches) :
        looksMalicious(matches[i].advisory) \/ looksRemovalRecommended(matches[i].advisory) }

\* C37: the alert built for a set of matches contains the
\* double-confirmation notice (the approval request naming the affected
\* skills and their candidate removal paths under the install root) exactly
\* when at least one of the matches has an advisory classified as malicious
\* or removal-recommended; otherwise it contains only the generic review
\* recommendation.
C37_NoticeIffUnsafe ==
    AlertBuilt =>
        /\ UnsafePlaces(pure.args[1]) # {} =>
              /\ NoticeTexts \subseteq FixedOf(pure.out)
              /\ GenericText \notin FixedOf(pure.out)
              /\ \A names \in ItemsOf(pure.out, "Approval needed: ask the user to approve removal of: ") :
                    { names[i] : i \in 1..Len(names) }
                      = { pure.args[1][i].skill.name : i \in UnsafePlaces(pure.args[1]) }
              /\ { items[1] : items \in ItemsOf(pure.out, "- ") }
                    = { pure.args[2] \o <<"/">> \o pure.args[1][i].skill.dirName :
                          i \in UnsafePlaces(pure.args[1]) }
        /\ UnsafePlaces(pure.args[1]) = {} =>
              /\ NoticeTexts \cap FixedOf(pure.out) = {}
              /\ GenericText \in FixedOf(pure.out)

\* Nine matches of which the last alone is unsafe: the notice names its
\* skill although the match is not listed.
C37_Witness ==
    /\ AlertBuilt
    /\ Len(pure.args[1]) > MAX_LISTED
    /\ UnsafePlaces(pure.args[1]) = {MAX_LISTED + 1}
    /\ << NameB >> \in ItemsOf(pure.out, "Approval needed: ask the user to approve removal of: ")
    /\ << <<"/","r","/","b">> >> \in ItemsOf(pure.out, "- ")

\* Matches whose advisories say "was removed" and "malicious_skill" in a
\* title give the generic recommendation.
C37_WitnessGeneric ==
    /\ AlertBuilt
    /\ Len(pure.args[1]) = 2
    /\ pure.args[1][1].advisory = AdvRemoved
    /\ pure.args[1][2].advisory = AdvTypeInTitle
    /\ GenericText \in FixedOf(pure.out)

\* A match unsafe by its type and one unsafe by "do not use" give the
\* notice.
C37_WitnessNotice ==
    /\ AlertBuilt
    /\ Len(pure.args[1]) = 2
    /\ pure.args[1][1].advisory = AdvMalType
    /\ pure.args[1][2].advisory = AdvDoNotUse
    /\ NoticeTexts \subseteq FixedOf(pure.out)

\* A loader ran on its own with the unsigned bypass.
Bypassed(phase) == load.phase = phase /\ load.env.allowUnsigned

\* The text is a JSON document that passes the feed shape check.
ParsesToFeed(text) ==
    /\ text.kind = "text"
    /\ text.is = "feed"
    /\ text.json
    /\ isValidFeedPayload(text.doc)

ReturnedFeed(out) == ~IsThrow(out.result) /\ out.result.kind = "feed"

\* C38: with the unsigned bypass, both loaders skip the verification of the
\* feed signature and of the checksum manifest, whether checksum
\* verification is enabled or not, and read no signature and no manifest;
\* they still reject a payload that is no valid JSON or fails the shape
\* check.
C38_BypassSkipsVerification ==
    /\ Bypassed("remote") =>
          /\ \A i \in 1..Len(load.out.touched) : load.out.touched[i] = "feed"
          /\ ReturnedFeed(load.out) => ParsesToFeed(ServedText("feed"))
          /\ (Permitted(load.env.w.urls.feed) /\ ParsesToFeed(ServedText("feed")))
                => load.out.result = FeedResult(ServedText("feed").doc)
          /\ (Permitted(load.env.w.urls.feed) /\ ~ParsesToFeed(ServedText("feed")))
                => load.out.result = NoResult
    /\ Bypassed("local") =>
          /\ load.out.touched = <<"feed">>
          /\ IF ParsesToFeed(FileText("feed"))
             THEN load.out.result = FeedResult(FileText("feed").doc)
             ELSE IsThrow(load.out.result)

\* With checksum verification enabled, the local loader returned a feed
\* whose signature file is absent, and the remote loader one whose manifest
\* is signed with another key.
C38_Witness ==
    /\ Bypassed("local") \/ Bypassed("remote")
    /\ load.env.verifyChecksumManifest
    /\ ReturnedFeed(load.out)
    /\ \/ Bypassed("local") /\ FileText("sig") = NoResult
       \/ /\ Bypassed("remote")
          /\ ~NotFetched(ServedText("sums")) /\ ~NotFetched(ServedText("sumsSig"))
          /\ ~SignedBy(ServedText("sums"), ServedText("sumsSig"), PemOption(load.env))

\* The local loader returned a feed although no signature file exists.
C38_WitnessLocal ==
    /\ Bypassed("local")
    /\ load.env.verifyChecksumManifest
    /\ FileText("sig") = NoResult
    /\ ReturnedFeed(load.out)

\* The remote loader returned a feed although the manifest is signed with
\* another key.
C38_WitnessRemote ==
    /\ Bypassed("remote")
    /\ load.env.verifyChecksumManifest
    /\ ~NotFetched(ServedText("sums")) /\ ~NotFetched(ServedText("sumsSig"))
    /\ ~SignedBy(ServedText("sums"), ServedText("sumsSig"), PemOption(load.env))
    /\ ReturnedFeed(load.out)

\* Under the bypass a payload that is no JSON and one of a wrong shape were
\* rejected.
C38_WitnessRejected ==
    /\ Bypassed("local")
    /\ FileText("feed").kind = "text"
    /\ FileText("feed").is = "feed"
    /\ \/ ~FileText("feed").json /\ load.out.result = Throw("SyntaxError")
       \/ /\ FileText("feed").json
          /\ ~ShapeOk(FileText("feed").doc)
          /\ load.out.result = Throw("Invalid advisory feed format")

\* The call has named its temp file and not yet renamed it.
HoldsTmp(call) == call.pc \in {"named", "writing", "written"}

\* C39: each persistState call writes to a temp file name that no other
\* call in flight for the same state file uses, in separate processes or in
\* one process, so one writer's rename never publishes or removes another
\* writer's partly written temp file: a call that has written its temp file
\* finds it in place and whole.
C39_TmpNameUnique ==
    /\ \A a, b \in Calls :
          (a # b /\ HoldsTmp(calls[a]) /\ HoldsTmp(calls[b])) => calls[a].tmp # calls[b].tmp
    /\ \A c \in Calls :
          calls[c].pc = "written" =>
              /\ dir[calls[c].tmp] # 0
              /\ inodes[dir[calls[c].tmp]] = Serialized(calls[c].file)

\* Calls of separate processes, and calls of one process that name their
\* temp files in different milliseconds, use different names.
C39_UniqueAcrossProcesses ==
    \A a, b \in Calls :
        (a # b /\ HoldsTmp(calls[a]) /\ HoldsTmp(calls[b])
           /\ calls[a].pid # calls[b].pid) => calls[a].tmp # calls[b].tmp

\* Two calls of one process hold the same temp file name, and one of them
\* has written a file that the other has cut or renamed away.
C39_WitnessShared ==
    \E a, b \in Calls :
        /\ a # b
        /\ calls[a].pid = calls[b].pid
        /\ calls[a].pc = "written"
        /\ calls[b].pc \in {"writing", "renamed"}
        /\ calls[a].tmp = calls[b].tmp

\* The remote loader got the feed and its signature, verified them, got the
\* manifest and its signature, verified the manifest's signature under key,
\* and the manifest does not parse or does not list the digest of the feed
\* or of the feed signature.
ManifestRejected(key) ==
    /\ ~load.env.allowUnsigned
    /\ load.env.verifyChecksumManifest
    /\ \A slot \in {"feed", "sig", "sums", "sumsSig"} : Permitted(load.env.w.urls[slot])
    /\ SignedBy(ServedText("feed"), ServedText("sig"), key)
    /\ ~NotFetched(ServedText("sums"))
    /\ SignedBy(ServedText("sums"), ServedText("sumsSig"), key)
    /\ \/ IsThrow(parseChecksumsManifest(ServedText("sums")))
       \/ ~ListsDigest(ServedText("sums"), load.env.w.urls.feed.basename, ServedText("feed"))
       \/ ~ListsDigest(ServedText("sums"), load.env.w.urls.sig.basename, ServedText("sig"))

C40_WitnessMismatch ==
    /\ load.phase = "remote"
    /\ ManifestRejected(PemOption(load.env))
    /\ ~IsThrow(parseChecksumsManifest(ServedText("sums")))
    /\ IsThrow(load.out.result)

\* A manifest signed with another key made the remote loader return null,
\* and loadFeed returned the local feed.
C40_WitnessFallback ==
    /\ Orchestrated
    /\ ~NotFetched(ServedText("sums"))
    /\ SignedBy(ServedText("feed"), ServedText("sig"), KeyRead(load.env))
    /\ ~SignedBy(ServedText("sums"), ServedText("sumsSig"), KeyRead(load.env))
    /\ load.out.remote.result = NoResult
    /\ load.out.source = "local"

====
